---- MODULE Spec2Model ----
(***************************************************************************)
(* Playback, mixing and scheduling engine of drumtrack.                    *)
(*                                                                         *)
(* The module models the player context (PlayerProvider), the integrated   *)
(* two-bus engine (MidiPlaybackEngine), the multi-bus engine               *)
(* (DawMixerEngine) and the shared Tone.js transport they schedule on.     *)
(* Time is discrete: the transport position is the next tick to process,   *)
(* and an event scheduled at time t fires when the tick at t is processed. *)
(***************************************************************************)
EXTENDS Integers, Sequences, FiniteSets, TLC

(***************************************************************************)
(* Bounds of the model.                                                    *)
(***************************************************************************)
MaxPos == 2
MaxRR == 2

None == "none"

(***************************************************************************)
(* Static tables of the program.                                           *)
(***************************************************************************)
GM_NOTE_TO_INSTRUMENT ==
  [n \in {36, 38, 42, 46, 45, 47, 50, 49, 51} |->
     CASE n = 36 -> "kick"
       [] n = 38 -> "snare"
       [] n = 42 -> "hihat-closed"
       [] n = 46 -> "hihat-open"
       [] n = 45 -> "tom-low"
       [] n = 47 -> "tom-mid"
       [] n = 50 -> "tom-high"
       [] n = 49 -> "crash"
       [] n = 51 -> "ride"]

STEM_NAMES == <<"kick", "snare", "toms", "hh", "cymbals">>

STEM_MIDI_NOTES ==
  [s \in {"kick", "snare", "toms", "hh", "cymbals"} |->
     CASE s = "kick" -> <<36>>
       [] s = "snare" -> <<38>>
       [] s = "toms" -> <<45, 47, 50>>
       [] s = "hh" -> <<42, 46>>
       [] s = "cymbals" -> <<49, 51>>]

SeqToSet(s) == {s[i] : i \in DOMAIN s}

StemIds == SeqToSet(STEM_NAMES)

ChannelIds == StemIds \cup {"backing"}

(* noteToStem of scheduleDawEvents: midi note -> stem, None when unmapped *)
NoteToStem(note) ==
  IF \E s \in StemIds : note \in SeqToSet(STEM_MIDI_NOTES[s])
    THEN CHOOSE s \in StemIds : note \in SeqToSet(STEM_MIDI_NOTES[s])
    ELSE None

(***************************************************************************)
(* The environment: kit manifests served by the sample-kit service and the *)
(* event lists served by the job API.                                      *)
(***************************************************************************)
Kits == {"default", "alt"}

KitManifest(kit) ==
  IF kit = "default"
    THEN [i \in {"kick", "snare"} |->
            IF i = "kick" THEN <<"kick_1.wav", "kick_2.wav">> ELSE <<"snare_1.wav">>]
    ELSE [i \in {"kick", "snare"} |->
            IF i = "kick" THEN <<"kick_1.wav">> ELSE <<"snare_1.wav">>]

getSampleUrl(kit, f) == <<kit, f>>

Ev(t, n, v) == [quantized_time |-> t, midi_note |-> n, velocity |-> v]

EventLists ==
  { <<Ev(1, 36, 100), Ev(0, 36, 64)>>,
    <<Ev(1, 49, 90), Ev(0, 38, 16)>> }

EventNotes == {36, 38, 49}

(***************************************************************************)
(* buildDrumSampleUrls: note -> ordered list of variant URLs for a kit.    *)
(***************************************************************************)
MapSeq(s, kit) == [i \in DOMAIN s |-> getSampleUrl(kit, s[i])]

buildNoteUrls(kit) ==
  LET m == KitManifest(kit)
      notes == {n \in DOMAIN GM_NOTE_TO_INSTRUMENT : GM_NOTE_TO_INSTRUMENT[n] \in DOMAIN m}
  IN [n \in notes |-> MapSeq(m[GM_NOTE_TO_INSTRUMENT[n]], kit)]

buildAllUrls(kit) ==
  LET nu == buildNoteUrls(kit)
  IN UNION {SeqToSet(nu[n]) : n \in DOMAIN nu}

VARIABLES
  \* Tone transport (process-wide singleton)
  tState,          \* "stopped" | "started" | "paused"
  tPos,            \* position in seconds: the next tick to process
  timeline,        \* set of scheduled callbacks [id, time, owner, ev]
  \* MidiPlaybackEngine
  sampleSet,       \* _sampleSet
  isLoaded,        \* _isLoaded
  noteUrls,        \* _noteUrls: note -> Seq(url)
  players,         \* _players: url -> loaded flag of the Tone.Player
  roundRobinIndex, \* roundRobinIndex: note -> counter
  volumeNodes,     \* TRUE once _midiVolume / _backingVolume exist
  muted,           \* [flag |-> _muted, midi |-> _midiVolume.mute, backing |-> _backingVolume.mute]
  backing,         \* _backingPlayer: [state, conn]
  scheduledEvents, \* handles of the integrated engine
  \* DawMixerEngine
  active,          \* _active
  channels,        \* channel id -> [muted, solo, nodeMute]
  stemPlayers,     \* stem -> set of URLs that have a dedicated clone
  dawScheduled,    \* handles of the multi-bus engine
  dawRoundRobin,   \* roundRobinIndex captured by the current closures
  \* PlayerProvider
  engineRef,       \* engineRef.current / dawEngineRef.current are set
  isReady,
  isPlaying,
  isLoading,
  events,          \* events state
  currentSampleSet,
  isDawOpen,
  initPc,          \* position of initialize()
  csPc,            \* position of changeSamples()
  loadStatus,      \* terminal status the caller saw for the last load
  \* observation of the run
  fired,           \* callbacks invoked by the last tick, in order
  trigCount,       \* logical triggers per note since the last kit swap
  prior,           \* engine state when the last changeSamples was called
  trip,            \* last topology round trip: phase and the trigger times before it
  \* sample fetches that failed
  loadError,       \* URLs whose Tone.Player can never become loaded
  \* gains
  midiVol,         \* MidiPlayer midiVol slider state (0..100)
  backingVol,      \* MidiPlayer backingVol slider state (0..100)
  midiDb,          \* _midiVolume.volume.value set by the program (centi-dB)
  backingDb,       \* _backingVolume.volume.value set by the program (centi-dB)
  \* metronome of the DawMixerEngine
  metro,           \* [enabled, nodes, mute, part]
  \* offline export
  exp,             \* the export in flight and its outcome
  midiOut,         \* the last exportChannelMidi call and what it returned
  wav,             \* the last encodeWav call: the buffer and the bytes
  \* Tone.Volume internals and engine instances
  unmutedVolume,   \* _unmutedVolume of _midiVolume / _backingVolume
  disposal,        \* releases of the last disposal, in order, until the next engine is created
  stray            \* an engine no mounted provider will dispose: [pc, origin, kit, handles]

transportVars == <<tState, tPos, timeline>>
engineVars == <<sampleSet, isLoaded, noteUrls, players, roundRobinIndex,
                volumeNodes, muted, backing, scheduledEvents>>
dawVars == <<active, channels, stemPlayers, dawScheduled, dawRoundRobin>>
providerVars == <<engineRef, isReady, isPlaying, isLoading, events,
                  currentSampleSet, isDawOpen, initPc, csPc, loadStatus>>
obsVars == <<fired, trigCount, prior, trip>>
loadVars == <<loadError>>
gainVars == <<midiVol, backingVol, midiDb, backingDb, unmutedVolume>>
metroVars == <<metro>>
exportVars == <<exp, midiOut, wav>>
lifeVars == <<disposal, stray>>
extVars == <<loadVars, gainVars, metroVars, exportVars, lifeVars>>

vars == <<transportVars, engineVars, dawVars, providerVars, obsVars, extVars>>

ZeroCount == [n \in EventNotes |-> 0]

NoBacking == [state |-> None, conn |-> {}]

Unmuted == [flag |-> FALSE, midi |-> FALSE, backing |-> FALSE]

NoPrior == [sampleSet |-> None]

NoTrip == [phase |-> None, before |-> << >>]

(* DawMixerEngine fields metronomesynth/metronomeVolume (nodes), the mute of *)
(* metronomeVolume, metronomePart (its interval, 0 when null), the bpm of   *)
(* the last enabling call and _metronomeEnabled, as the constructor leaves  *)
(* them                                                                     *)
NoMetro == [enabled |-> FALSE, nodes |-> FALSE, mute |-> FALSE, part |-> 0, lastBpm |-> 0]

(* useState(80) of the MidiPlayer sliders *)
InitialSlider == 80

NoInputs == [events |-> << >>, kit |-> None, midiGain |-> 0, backingGain |-> 0]

NoResult == [backingGain |-> 0, dur |-> 0, sources |-> << >>]

NoLive == [drum |-> {}, backing |-> {}]

(* an export: position, entry point (kind, ch), the arguments of the call, *)
(* the sample URLs in the order their decodes completed, the render, the   *)
(* exporting flag of the component, the Blobs handed to the download, the  *)
(* failures its catch block saw, the fault that was injected, the          *)
(* transport state and the live gains when the render call was made        *)
NoExport ==
  [pc |-> "idle", kind |-> None, ch |-> None, inputs |-> NoInputs, fetched |-> << >>,
   result |-> NoResult, exporting |-> FALSE, blobs |-> 0, failures |-> 0,
   fault |-> None, startState |-> None, live |-> NoLive]

NoMidiOut == [status |-> None, ch |-> None, known |-> FALSE, bpm |-> 0, events |-> << >>, file |-> None]

NoWav == [encoded |-> FALSE, in |-> None, out |-> None]

(* new Tone.Volume(0): the volume an unmute restores is the constructor's *)
NoSaved == [midi |-> 0, backing |-> 0]

(* no engine besides the one the mounted provider builds or references *)
NoStray == [pc |-> None, origin |-> None, kit |-> None, handles |-> << >>]

Init ==
  /\ tState = "stopped"
  /\ tPos = 0
  /\ timeline = {}
  /\ sampleSet = "default"
  /\ isLoaded = FALSE
  /\ noteUrls = << >>
  /\ players = << >>
  /\ roundRobinIndex = ZeroCount
  /\ volumeNodes = FALSE
  /\ muted = Unmuted
  /\ backing = NoBacking
  /\ scheduledEvents = << >>
  /\ active = FALSE
  /\ channels = << >>
  /\ stemPlayers = << >>
  /\ dawScheduled = << >>
  /\ dawRoundRobin = ZeroCount
  /\ engineRef = FALSE
  /\ isReady = FALSE
  /\ isPlaying = FALSE
  /\ isLoading = FALSE
  /\ events = << >>
  /\ currentSampleSet = "default"
  /\ isDawOpen = FALSE
  /\ initPc = "idle"
  /\ csPc = "idle"
  /\ loadStatus = None
  /\ fired = << >>
  /\ trigCount = ZeroCount
  /\ prior = NoPrior
  /\ trip = NoTrip
  /\ loadError = {}
  /\ midiVol = InitialSlider
  /\ backingVol = InitialSlider
  /\ midiDb = 0
  /\ backingDb = 0
  /\ metro = NoMetro
  /\ exp = NoExport
  /\ midiOut = NoMidiOut
  /\ wav = NoWav
  /\ unmutedVolume = NoSaved
  /\ disposal = << >>
  /\ stray = NoStray


(***************************************************************************)
(* Tone transport: schedule / clear / start / pause / stop / seconds.      *)
(***************************************************************************)
(* the transport hands out event ids that are not in use, in increasing order *)
NextId(tl) ==
  IF tl = {} THEN 0
  ELSE 1 + (CHOOSE m \in {h.id : h \in tl} : \A h \in tl : h.id <= m)

HandleIds(id0, evs) == [i \in DOMAIN evs |-> id0 + i - 1]

(* schedule with every callback registered at position 0 *)
scheduleAtZero(tl, id0, evs, owner) ==
  tl \cup {[id |-> id0 + i - 1, time |-> 0,
            owner |-> owner, ev |-> evs[i]] : i \in DOMAIN evs}

(* Transport.schedule, once per event of the list, in list order *)
schedule(tl, id0, evs, owner) ==
  tl \cup {[id |-> id0 + i - 1, time |-> evs[i].quantized_time,
            owner |-> owner, ev |-> evs[i]] : i \in DOMAIN evs}

(* clearScheduled that forgets to clear the transport *)
clearScheduledKeep(tl, ids) == tl

(* MidiPlaybackEngine.clearScheduled and the clearing loops of the DAW engine *)
clearScheduled(tl, ids) == {h \in tl : h.id \notin SeqToSet(ids)}

TransportStart(s) == "started"

(* pause that ignores the state it is called in *)
TransportPauseAlways(s) == "paused"

TransportPause(s) == IF s = "started" THEN "paused" ELSE s

(***************************************************************************)
(* MidiPlaybackEngine.mute / unmute                                        *)
(***************************************************************************)
mute(m, nodes) ==
  [flag |-> TRUE,
   midi |-> IF nodes THEN TRUE ELSE m.midi,
   backing |-> IF nodes THEN TRUE ELSE m.backing]

(* unmute that only resets the flag *)
unmuteFlagOnly(m, nodes) == [m EXCEPT !.flag = FALSE]

unmute(m, nodes) ==
  [flag |-> FALSE,
   midi |-> IF nodes THEN FALSE ELSE m.midi,
   backing |-> IF nodes THEN FALSE ELSE m.backing]

(* Tone.Volume: setting mute on an audible node stores its volume value    *)
(* and writes -Infinity; clearing mute on a node that reads muted writes    *)
(* the stored value back.  A node reads muted exactly when its value is    *)
(* -Infinity.                                                              *)
saveUnmuted(s, m, mdb, bdb, nodes) ==
  [midi |-> IF nodes /\ ~m.midi THEN mdb ELSE s.midi,
   backing |-> IF nodes /\ ~m.backing THEN bdb ELSE s.backing]

restoredDb(db, isMuted, saved, nodes) == IF nodes /\ isMuted THEN saved ELSE db

(***************************************************************************)
(* Trigger callbacks.  A world w carries the counters the callbacks of one *)
(* tick update one after the other, and the log of what they did.          *)
(***************************************************************************)
UrlsOf(nu, note) == IF note \in DOMAIN nu THEN nu[note] ELSE << >>

PickVariant(urls, idx) == urls[(idx % Len(urls)) + 1]

Bump(f, note) == [f EXCEPT ![note] = @ + 1]

(* velocity / 127 as a linear gain in ten-thousandths; the callbacks pass  *)
(* it through Tone.gainToDb to the player's volume                         *)
velGain(velocity) == (velocity * 10000) \div 127

TrigRec(h, logical, k, n, idx, outcome) ==
  [owner |-> h.owner, id |-> h.id, note |-> h.ev.midi_note,
   qt |-> h.ev.quantized_time, gain |-> velGain(h.ev.velocity),
   logical |-> logical, k |-> k, n |-> n, idx |-> idx, outcome |-> outcome]

(* MidiPlaybackEngine.triggerSample, called from the scheduleEvents callback *)
triggerSample(w, h, nu, pl, logical) ==
  LET note == h.ev.midi_note
      urls == UrlsOf(nu, note)
      cnt == IF logical THEN Bump(w.cnt, note) ELSE w.cnt
      k == w.cnt[note]
  IN IF Len(urls) = 0
       THEN [w EXCEPT !.cnt = cnt,
                      !.log = Append(@, TrigRec(h, logical, k, 0, -1, "no_variants"))]
       ELSE LET idx == w.rr[note]
                url == PickVariant(urls, idx)
                outcome == IF url \notin DOMAIN pl THEN "no_player"
                           ELSE IF pl[url] THEN "played" ELSE "started_unloaded"
            IN [w EXCEPT !.cnt = cnt,
                         !.rr = Bump(@, note),
                         !.log = Append(@, TrigRec(h, logical, k, Len(urls),
                                                   idx % Len(urls), outcome))]

(* the callback scheduleDawEvents registers for each event *)
dawTrigger(w, h, nu, sp) ==
  LET note == h.ev.midi_note
      stemId == NoteToStem(note)
      urls == UrlsOf(nu, note)
      cnt == Bump(w.cnt, note)
      k == w.cnt[note]
  IN IF stemId = None
       THEN [w EXCEPT !.cnt = cnt,
                      !.log = Append(@, TrigRec(h, TRUE, k, 0, -1, "no_stem"))]
     ELSE IF Len(urls) = 0
       THEN [w EXCEPT !.cnt = cnt,
                      !.log = Append(@, TrigRec(h, TRUE, k, 0, -1, "no_variants"))]
     ELSE LET idx == w.drr[note]
              url == PickVariant(urls, idx)
              outcome == IF stemId \in DOMAIN sp /\ url \in sp[stemId]
                           THEN "played" ELSE "no_player"
          IN [w EXCEPT !.cnt = cnt,
                       !.drr = Bump(@, note),
                       !.log = Append(@, TrigRec(h, TRUE, k, Len(urls),
                                                 idx % Len(urls), outcome))]

(* the callback of an engine other than the provider's: its triggerSample *)
(* plays on that engine's own voices and counters, which are not tracked  *)
strayTrigger(w, h) ==
  [w EXCEPT !.log = Append(@, TrigRec(h, FALSE, 0, 0, -1, "stray"))]

MinId(S) == CHOOSE h \in S : \A g \in S : h.id <= g.id

(* the transport invokes the callbacks due at a tick in scheduling order;   *)
(* a base callback is the logical trigger of its event unless the multi-bus *)
(* path is the audible one                                                  *)
RECURSIVE FireAll(_, _, _, _, _, _)
FireAll(w, S, nu, pl, sp, act) ==
  IF S = {} THEN w
  ELSE LET h == MinId(S)
           w2 == IF h.owner = "daw" THEN dawTrigger(w, h, nu, sp)
                 ELSE IF h.owner = "stray" THEN strayTrigger(w, h)
                 ELSE triggerSample(w, h, nu, pl, ~act)
       IN FireAll(w2, S \ {h}, nu, pl, sp, act)

Due(tl, pos) == {h \in tl : h.time = pos}

(* number of outstanding triggers per time position *)
TimesBag(tl) == [t \in 0..MaxPos |-> Cardinality(Due(tl, t))]

CountersBelowCap ==
  \A n \in EventNotes :
    /\ roundRobinIndex[n] < MaxRR
    /\ dawRoundRobin[n] < MaxRR
    /\ trigCount[n] < MaxRR

(* one tick of the running transport *)
Tick ==
  /\ tState = "started"
  /\ tPos < MaxPos
  /\ CountersBelowCap
  /\ LET w0 == [rr |-> roundRobinIndex, drr |-> dawRoundRobin,
                cnt |-> trigCount, log |-> << >>]
         w == FireAll(w0, Due(timeline, tPos), noteUrls, players, stemPlayers, active)
     IN /\ roundRobinIndex' = w.rr
        /\ dawRoundRobin' = w.drr
        /\ trigCount' = w.cnt
        /\ fired' = w.log
  /\ tPos' = tPos + 1
  /\ UNCHANGED <<tState, timeline>>
  /\ UNCHANGED <<sampleSet, isLoaded, noteUrls, players, volumeNodes, muted,
                 backing, scheduledEvents>>
  /\ UNCHANGED <<active, channels, stemPlayers, dawScheduled>>
  /\ UNCHANGED providerVars
  /\ UNCHANGED <<prior, trip>>
  /\ UNCHANGED extVars

(***************************************************************************)
(* PlayerProvider transport controls                                       *)
(***************************************************************************)
Play ==
  /\ tState' = IF engineRef THEN TransportStart(tState) ELSE tState
  /\ isPlaying' = TRUE
  /\ fired' = << >>
  /\ UNCHANGED <<tPos, timeline>>
  /\ UNCHANGED <<engineVars, dawVars>>
  /\ UNCHANGED <<engineRef, isReady, isLoading, events, currentSampleSet,
                 isDawOpen, initPc, csPc, loadStatus>>
  /\ UNCHANGED <<trigCount, prior, trip>>
  /\ UNCHANGED extVars

Pause ==
  /\ tState' = IF engineRef THEN TransportPause(tState) ELSE tState
  /\ isPlaying' = FALSE
  /\ fired' = << >>
  /\ UNCHANGED <<tPos, timeline>>
  /\ UNCHANGED <<engineVars, dawVars>>
  /\ UNCHANGED <<engineRef, isReady, isLoading, events, currentSampleSet,
                 isDawOpen, initPc, csPc, loadStatus>>
  /\ UNCHANGED <<trigCount, prior, trip>>
  /\ UNCHANGED extVars

Stop ==
  /\ tState' = IF engineRef THEN "stopped" ELSE tState
  /\ tPos' = IF engineRef THEN 0 ELSE tPos
  /\ isPlaying' = FALSE
  /\ fired' = << >>
  /\ UNCHANGED timeline
  /\ UNCHANGED <<engineVars, dawVars>>
  /\ UNCHANGED <<engineRef, isReady, isLoading, events, currentSampleSet,
                 isDawOpen, initPc, csPc, loadStatus>>
  /\ UNCHANGED <<trigCount, prior, trip>>
  /\ UNCHANGED extVars

SeekTo(s) ==
  /\ tPos' = IF engineRef THEN s ELSE tPos
  /\ fired' = << >>
  /\ UNCHANGED <<tState, timeline>>
  /\ UNCHANGED <<engineVars, dawVars, providerVars>>
  /\ UNCHANGED <<trigCount, prior, trip>>
  /\ UNCHANGED extVars

Seek == \E s \in 0..(MaxPos - 1) : SeekTo(s)


(***************************************************************************)
(* MidiPlaybackEngine loading                                              *)
(***************************************************************************)
AllLoaded(pl) == \A u \in DOMAIN pl : pl[u]

(* loadSamples after the manifest arrived: swap the variant map, reset the *)
(* counters, dispose the old players and create the new ones (not loaded)  *)
NewPlayers(kit) == [u \in buildAllUrls(kit) |-> FALSE]

(* one Tone.Player finishes fetching and decoding its sample *)
SampleLoaded ==
  /\ initPc = "samples" \/ csPc = "samples"
  /\ \E u \in DOMAIN players \ loadError :
       /\ ~players[u]
       /\ players' = [players EXCEPT ![u] = TRUE]
  /\ fired' = << >>
  /\ UNCHANGED transportVars
  /\ UNCHANGED <<sampleSet, isLoaded, noteUrls, roundRobinIndex, volumeNodes,
                 muted, backing, scheduledEvents>>
  /\ UNCHANGED <<dawVars, providerVars>>
  /\ UNCHANGED <<trigCount, prior, trip>>
  /\ UNCHANGED extVars

(***************************************************************************)
(* PlayerProvider.initialize                                               *)
(***************************************************************************)
(* up to the first await of loadSamples: new engine, Tone.start, init *)
InitStart ==
  /\ ~engineRef
  /\ initPc = "idle"
  /\ isLoading' = TRUE
  /\ sampleSet' = currentSampleSet
  /\ volumeNodes' = TRUE
  /\ muted' = Unmuted
  /\ isLoaded' = FALSE
  /\ noteUrls' = << >>
  /\ players' = << >>
  /\ roundRobinIndex' = ZeroCount
  /\ backing' = NoBacking
  /\ scheduledEvents' = << >>
  /\ initPc' = "manifest"
  /\ loadStatus' = "loading"
  /\ fired' = << >>
  /\ trigCount' = ZeroCount
  /\ UNCHANGED transportVars
  /\ UNCHANGED dawVars
  /\ UNCHANGED <<engineRef, isReady, isPlaying, events, currentSampleSet, isDawOpen, csPc>>
  /\ UNCHANGED <<prior, trip>>
  /\ loadError' = {}
  /\ midiDb' = 0
  /\ backingDb' = 0
  /\ unmutedVolume' = NoSaved
  /\ disposal' = << >>
  /\ UNCHANGED <<midiVol, backingVol, metroVars, exportVars, stray>>

(* the kit manifest arrives: loadSamples runs to its Promise.all *)
InitManifestOk ==
  /\ initPc = "manifest"
  /\ noteUrls' = buildNoteUrls(sampleSet)
  /\ roundRobinIndex' = ZeroCount
  /\ players' = NewPlayers(sampleSet)
  /\ initPc' = "samples"
  /\ fired' = << >>
  /\ trigCount' = ZeroCount
  /\ UNCHANGED transportVars
  /\ UNCHANGED <<sampleSet, isLoaded, volumeNodes, muted, backing, scheduledEvents>>
  /\ UNCHANGED dawVars
  /\ UNCHANGED <<engineRef, isReady, isPlaying, isLoading, events,
                 currentSampleSet, isDawOpen, csPc, loadStatus>>
  /\ UNCHANGED <<prior, trip>>
  /\ loadError' = {}
  /\ UNCHANGED <<gainVars, metroVars, exportVars, lifeVars>>

(* all players loaded: init resolves, loadBackingTrack creates the player *)
InitSamplesDone ==
  /\ initPc = "samples"
  /\ AllLoaded(players)
  /\ isLoaded' = TRUE
  /\ backing' = [state |-> "loading", conn |-> {"base"}]
  /\ initPc' = "backing"
  /\ fired' = << >>
  /\ UNCHANGED transportVars
  /\ UNCHANGED <<sampleSet, noteUrls, players, roundRobinIndex, volumeNodes,
                 muted, scheduledEvents>>
  /\ UNCHANGED dawVars
  /\ UNCHANGED <<engineRef, isReady, isPlaying, isLoading, events,
                 currentSampleSet, isDawOpen, csPc, loadStatus>>
  /\ UNCHANGED <<trigCount, prior, trip>>
  /\ UNCHANGED extVars

(* the backing Tone.Player finishes loading: loadBackingTrack resumes and *)
(* syncs the player to the transport                                      *)
BackingLoaded ==
  /\ backing.state = "loading"
  /\ initPc \in {"backing", "done"}
  /\ backing' = [backing EXCEPT !.state = "synced"]
  /\ fired' = << >>
  /\ UNCHANGED transportVars
  /\ UNCHANGED <<sampleSet, isLoaded, noteUrls, players, roundRobinIndex,
                 volumeNodes, muted, scheduledEvents>>
  /\ UNCHANGED <<dawVars, providerVars>>
  /\ UNCHANGED <<trigCount, prior, trip>>
  /\ UNCHANGED extVars

(* MidiPlaybackEngine.scheduleEvents on the transport *)
scheduleEvents(tl, old, evs) ==
  LET cleared == clearScheduled(tl, old)
  IN schedule(cleared, NextId(cleared), evs, "base")

(* events and backing track arrived: schedule, publish the engine *)
InitFinish ==
  /\ initPc = "backing"
  /\ backing.state = "synced"
  /\ \E evs \in EventLists :
       /\ events' = evs
       /\ timeline' = scheduleEvents(timeline, scheduledEvents, evs)
       /\ scheduledEvents' = HandleIds(NextId(clearScheduled(timeline, scheduledEvents)), evs)
  /\ engineRef' = TRUE
  /\ isReady' = TRUE
  /\ isLoading' = FALSE
  /\ initPc' = "done"
  /\ loadStatus' = "ready"
  /\ active' = FALSE
  /\ channels' = << >>
  /\ stemPlayers' = << >>
  /\ dawScheduled' = << >>
  /\ dawRoundRobin' = ZeroCount
  /\ fired' = << >>
  /\ UNCHANGED <<tState, tPos>>
  /\ UNCHANGED <<sampleSet, isLoaded, noteUrls, players, roundRobinIndex,
                 volumeNodes, muted, backing>>
  /\ UNCHANGED <<isPlaying, currentSampleSet, isDawOpen, csPc>>
  /\ UNCHANGED <<trigCount, prior, trip>>
  /\ UNCHANGED extVars

(* a fetch awaited by initialize rejects (manifest, sample sets or events): *)
(* the catch block logs, the engine under construction is dropped           *)
InitFail ==
  /\ initPc \in {"manifest", "samples", "backing"}
  /\ isLoading' = FALSE
  /\ initPc' = "idle"
  /\ loadStatus' = "failed"
  /\ fired' = << >>
  /\ UNCHANGED transportVars
  /\ UNCHANGED <<engineVars, dawVars>>
  /\ UNCHANGED <<engineRef, isReady, isPlaying, events, currentSampleSet, isDawOpen, csPc>>
  /\ UNCHANGED <<trigCount, prior, trip>>
  /\ UNCHANGED extVars

(***************************************************************************)
(* DawMixerEngine                                                          *)
(***************************************************************************)
NewChannel == [muted |-> FALSE, solo |-> FALSE, nodeMute |-> FALSE, volume |-> 0]

(***************************************************************************)
(* Gains.  Decibel values are integers in hundredths of a dB, linear gains *)
(* integers in ten-thousandths; NegInf stands for -Infinity dB.            *)
(***************************************************************************)
NegInf == -100000

Sliders == {0, 100}

DawSliders == {0, 100}

(* MidiPlayer sliderToDb: 20 * log10((value / 100) ^ 2), -Infinity at 0 *)
sliderToDb(value) ==
  CASE value <= 0 -> NegInf
    [] value = 50 -> -1204
    [] value = 80 -> -388
    [] value = 100 -> 0

(* MidiPlayer dbToLinear: 10 ^ (db / 20), 0 at -Infinity; the same formula *)
(* is the gain a Tone.Volume node applies for its volume value             *)
dbToLinear(db) ==
  CASE db = NegInf -> 0
    [] db = -2000 -> 1000
    [] db = -1204 -> 2500
    [] db = -388 -> 6400
    [] db = 0 -> 10000
    [] db = 600 -> 19953

(* DawChannelStrip sliderToDb: (val / 100) * 26 - 20 *)
stripSliderToDb(val) == val * 26 - 2000

(* DawChannelStrip dbToSlider: ((db + 20) / 26) * 100, the position the    *)
(* fader shows for a channel volume                                        *)
dbToSlider(db) == ((db + 2000) * 100) \div 2600

(* setChannelVolume that writes the gain of every channel *)
setChannelVolumeAll(chs, id, db) ==
  IF id \notin DOMAIN chs THEN chs
  ELSE [c \in DOMAIN chs |-> [chs[c] EXCEPT !.volume = db, !.nodeMute = (db = NegInf)]]

(* DawMixerEngine.setChannelVolume; the node's mute reads TRUE exactly when *)
(* its volume value is -Infinity, so writing the value also settles it     *)
setChannelVolume(chs, id, db) ==
  IF id \notin DOMAIN chs THEN chs
  ELSE [chs EXCEPT ![id].volume = db, ![id].nodeMute = (db = NegInf)]

(***************************************************************************)
(* Metronome of the DawMixerEngine.  part is the interval of the Tone.Loop *)
(* in milliseconds, NoPart when metronomePart is null.                     *)
(***************************************************************************)
NoPart == 0

Bpms == {60, 120}

secondsPerBeat(bpm) == 60000 \div bpm

(* the metronome set-up at the end of activate *)
activateMetronome(m) == [m EXCEPT !.nodes = TRUE, !.mute = ~m.enabled]

(* the metronome teardown of deactivate *)
deactivateMetronome(m) == [m EXCEPT !.nodes = FALSE, !.mute = FALSE, !.part = NoPart]

(* DawMixerEngine.setMetronome *)
setMetronome(m, enabled, bpm) ==
  LET m1 == [m EXCEPT !.enabled = enabled,
                      !.mute = IF m.nodes THEN ~enabled ELSE @,
                      !.lastBpm = IF enabled THEN bpm ELSE @]
  IN IF enabled /\ m.part = NoPart /\ m.nodes
       THEN [m1 EXCEPT !.part = secondsPerBeat(bpm)]
     ELSE IF ~enabled /\ m.part # NoPart
       THEN [m1 EXCEPT !.part = NoPart]
     ELSE m1

(* buildStemPlayers: one clone per loaded base player of the stem's notes *)
buildStemPlayers(chs, nu, pl) ==
  [stem \in (StemIds \cap DOMAIN chs) |->
     {u \in UNION {SeqToSet(UrlsOf(nu, n)) : n \in SeqToSet(STEM_MIDI_NOTES[stem])} :
        u \in DOMAIN pl /\ pl[u]}]

(* scheduleDawEvents on the transport *)
scheduleDawEvents(tl, old, evs) ==
  LET cleared == clearScheduled(tl, old)
  IN schedule(cleared, NextId(cleared), evs, "daw")

(* the bus the backing player is connected to after activate *)
activateBacking(b) == IF b.state # None THEN [b EXCEPT !.conn = {"daw"}] ELSE b

(* the bus the backing player is connected to after deactivate *)
deactivateBacking(b, nodes) ==
  IF b.state # None /\ nodes THEN [b EXCEPT !.conn = {"base"}] ELSE b

(* PlayerProvider.openDaw -> DawMixerEngine.activate *)
OpenDaw ==
  /\ engineRef
  /\ isDawOpen' = TRUE
  /\ fired' = << >>
  /\ IF active
       THEN /\ UNCHANGED timeline
            /\ UNCHANGED <<muted, backing>>
            /\ UNCHANGED dawVars
       ELSE /\ active' = TRUE
            /\ muted' = mute(muted, volumeNodes)
            /\ channels' = [c \in ChannelIds |-> NewChannel]
            /\ backing' = activateBacking(backing)
            /\ stemPlayers' = buildStemPlayers(channels', noteUrls, players)
            /\ timeline' = scheduleDawEvents(timeline, dawScheduled, events)
            /\ dawScheduled' = HandleIds(NextId(clearScheduled(timeline, dawScheduled)), events)
            /\ dawRoundRobin' = ZeroCount
  /\ UNCHANGED <<tState, tPos>>
  /\ UNCHANGED <<sampleSet, isLoaded, noteUrls, players, roundRobinIndex,
                 volumeNodes, scheduledEvents>>
  /\ UNCHANGED <<engineRef, isReady, isPlaying, isLoading, events,
                 currentSampleSet, initPc, csPc, loadStatus>>
  /\ trip' = IF active THEN trip ELSE [phase |-> "open", before |-> TimesBag(timeline)]
  /\ UNCHANGED <<trigCount, prior>>
  /\ metro' = IF active THEN metro ELSE activateMetronome(metro)
  /\ unmutedVolume' = IF active THEN unmutedVolume
                      ELSE saveUnmuted(unmutedVolume, muted, midiDb, backingDb, volumeNodes)
  /\ UNCHANGED <<midiVol, backingVol, midiDb, backingDb>>
  /\ UNCHANGED <<loadVars, exportVars, lifeVars>>

(* PlayerProvider.closeDaw -> DawMixerEngine.deactivate, then the base     *)
(* engine re-schedules the events                                          *)
CloseDaw ==
  /\ engineRef
  /\ isDawOpen' = FALSE
  /\ fired' = << >>
  /\ IF active
       THEN /\ active' = FALSE
            /\ dawScheduled' = << >>
            /\ stemPlayers' = << >>
            /\ backing' = deactivateBacking(backing, volumeNodes)
            /\ channels' = << >>
            /\ muted' = unmute(muted, volumeNodes)
            /\ dawRoundRobin' = ZeroCount
       ELSE /\ UNCHANGED <<muted, backing>>
            /\ UNCHANGED dawVars
  /\ LET tl == IF active THEN clearScheduled(timeline, dawScheduled) ELSE timeline
     IN /\ timeline' = scheduleEvents(tl, scheduledEvents, events)
        /\ scheduledEvents' = HandleIds(NextId(clearScheduled(tl, scheduledEvents)), events)
  /\ UNCHANGED <<tState, tPos>>
  /\ UNCHANGED <<sampleSet, isLoaded, noteUrls, players, roundRobinIndex, volumeNodes>>
  /\ UNCHANGED <<engineRef, isReady, isPlaying, isLoading, events,
                 currentSampleSet, initPc, csPc, loadStatus>>
  /\ trip' = IF active THEN [trip EXCEPT !.phase = "closed"] ELSE trip
  /\ UNCHANGED <<trigCount, prior>>
  /\ metro' = IF active THEN deactivateMetronome(metro) ELSE metro
  /\ midiDb' = IF active THEN restoredDb(midiDb, muted.midi, unmutedVolume.midi, volumeNodes)
               ELSE midiDb
  /\ backingDb' = IF active
                    THEN restoredDb(backingDb, muted.backing, unmutedVolume.backing, volumeNodes)
                    ELSE backingDb
  /\ UNCHANGED <<midiVol, backingVol, unmutedVolume>>
  /\ UNCHANGED <<loadVars, exportVars, lifeVars>>


(* recalcMuteStates in which solo overrides the channel's own mute *)
recalcSoloOverridesMute(chs) ==
  LET anySolo == \E c \in DOMAIN chs : chs[c].solo
  IN [c \in DOMAIN chs |->
        [chs[c] EXCEPT !.nodeMute = IF anySolo THEN ~chs[c].solo
                                    ELSE chs[c].muted]]

(* DawMixerEngine.recalcMuteStates *)
recalcMuteStates(chs) ==
  LET anySolo == \E c \in DOMAIN chs : chs[c].solo
  IN [c \in DOMAIN chs |->
        [chs[c] EXCEPT !.nodeMute = IF anySolo THEN ~chs[c].solo \/ chs[c].muted
                                    ELSE chs[c].muted]]

(* toggleMute that creates the channel it does not find *)
toggleMuteCreates(chs, id) ==
  recalcMuteStates(IF id \in DOMAIN chs THEN [chs EXCEPT ![id].muted = ~@]
                   ELSE (id :> [NewChannel EXCEPT !.muted = TRUE]) @@ chs)

(* DawMixerEngine.toggleMute *)
toggleMute(chs, id) ==
  IF id \notin DOMAIN chs THEN chs
  ELSE recalcMuteStates([chs EXCEPT ![id].muted = ~@])

(* DawMixerEngine.toggleSolo *)
toggleSolo(chs, id) ==
  IF id \notin DOMAIN chs THEN chs
  ELSE recalcMuteStates([chs EXCEPT ![id].solo = ~@])

MixerFrame ==
  /\ fired' = << >>
  /\ UNCHANGED transportVars
  /\ UNCHANGED engineVars
  /\ UNCHANGED <<active, stemPlayers, dawScheduled, dawRoundRobin>>
  /\ UNCHANGED providerVars
  /\ UNCHANGED <<trigCount, prior, trip>>
  /\ UNCHANGED extVars

(* useDawChannels.toggleMute *)
ToggleMute ==
  /\ engineRef
  /\ \E id \in ChannelIds : channels' = toggleMute(channels, id)
  /\ MixerFrame

(* useDawChannels.toggleSolo *)
ToggleSolo ==
  /\ engineRef
  /\ \E id \in ChannelIds : channels' = toggleSolo(channels, id)
  /\ MixerFrame

(* channel ids the mixer operations are exercised with when gains are also *)
(* varied: a drum stem, the backing channel and an id no channel has       *)
MixIds == {"kick", "backing", "aux"}

GainFrame ==
  /\ fired' = << >>
  /\ UNCHANGED transportVars
  /\ UNCHANGED engineVars
  /\ UNCHANGED <<active, stemPlayers, dawScheduled, dawRoundRobin>>
  /\ UNCHANGED providerVars
  /\ UNCHANGED <<trigCount, prior, trip>>
  /\ UNCHANGED <<loadVars, gainVars, exportVars, lifeVars>>

ToggleMuteOn(id) ==
  /\ engineRef
  /\ channels' = toggleMute(channels, id)
  /\ UNCHANGED metro
  /\ GainFrame

ToggleSoloOn(id) ==
  /\ engineRef
  /\ channels' = toggleSolo(channels, id)
  /\ UNCHANGED metro
  /\ GainFrame

(* useDawChannels.setChannelVolume from a channel strip fader *)
SetChannelVolumeOn(id, val) ==
  /\ engineRef
  /\ channels' = setChannelVolume(channels, id, stripSliderToDb(val))
  /\ UNCHANGED metro
  /\ GainFrame

(* DawMixerEngine.setMetronome(enabled, bpm) *)
SetMetronomeTo(enabled, bpm) ==
  /\ engineRef
  /\ metro' = setMetronome(metro, enabled, bpm)
  /\ UNCHANGED channels
  /\ GainFrame

MixToggleMute == \E id \in MixIds : ToggleMuteOn(id)

MixToggleSolo == \E id \in MixIds : ToggleSoloOn(id)

SetChannelVolume == \E id \in MixIds, val \in DawSliders : SetChannelVolumeOn(id, val)

SetMetronome == \E enabled \in BOOLEAN, bpm \in Bpms : SetMetronomeTo(enabled, bpm)

(***************************************************************************)
(* PlayerProvider.changeSamples -> MidiPlaybackEngine.changeSamples        *)
(***************************************************************************)
Snapshot ==
  [sampleSet |-> sampleSet, isLoaded |-> isLoaded, noteUrls |-> noteUrls,
   players |-> DOMAIN players, currentSampleSet |-> currentSampleSet]

(* up to the first await of loadSamples *)
ChangeSamplesStart ==
  /\ engineRef
  /\ csPc = "idle"
  /\ \E kit \in Kits :
       /\ currentSampleSet' = kit
       /\ sampleSet' = kit
  /\ isLoaded' = FALSE
  /\ csPc' = "manifest"
  /\ loadStatus' = "loading"
  /\ prior' = Snapshot
  /\ fired' = << >>
  /\ UNCHANGED transportVars
  /\ UNCHANGED <<noteUrls, players, roundRobinIndex, volumeNodes, muted,
                 backing, scheduledEvents>>
  /\ UNCHANGED dawVars
  /\ UNCHANGED <<engineRef, isReady, isPlaying, isLoading, events, isDawOpen, initPc>>
  /\ UNCHANGED <<trigCount, trip>>
  /\ UNCHANGED extVars

(* the manifest of the new kit arrives: the pool is swapped *)
ChangeSamplesManifestOk ==
  /\ csPc = "manifest"
  /\ noteUrls' = buildNoteUrls(sampleSet)
  /\ roundRobinIndex' = ZeroCount
  /\ players' = NewPlayers(sampleSet)
  /\ csPc' = "samples"
  /\ fired' = << >>
  /\ trigCount' = ZeroCount
  /\ UNCHANGED transportVars
  /\ UNCHANGED <<sampleSet, isLoaded, volumeNodes, muted, backing, scheduledEvents>>
  /\ UNCHANGED dawVars
  /\ UNCHANGED <<engineRef, isReady, isPlaying, isLoading, events,
                 currentSampleSet, isDawOpen, initPc, loadStatus>>
  /\ UNCHANGED <<prior, trip>>
  /\ loadError' = {}
  /\ UNCHANGED <<gainVars, metroVars, exportVars, lifeVars>>

(* the manifest fetch rejects: changeSamples rejects to its caller *)
ChangeSamplesFail ==
  /\ csPc = "manifest"
  /\ csPc' = "idle"
  /\ loadStatus' = "failed"
  /\ fired' = << >>
  /\ UNCHANGED transportVars
  /\ UNCHANGED <<engineVars, dawVars>>
  /\ UNCHANGED <<engineRef, isReady, isPlaying, isLoading, events,
                 currentSampleSet, isDawOpen, initPc>>
  /\ UNCHANGED <<trigCount, prior, trip>>
  /\ UNCHANGED extVars

(* DawMixerEngine.reschedule, a no-op when inactive *)
ChangeSamplesDone ==
  /\ csPc = "samples"
  /\ AllLoaded(players)
  /\ isLoaded' = TRUE
  /\ csPc' = "idle"
  /\ loadStatus' = "ready"
  /\ fired' = << >>
  /\ IF active
       THEN /\ stemPlayers' = buildStemPlayers(channels, noteUrls, players)
            /\ timeline' = scheduleDawEvents(timeline, dawScheduled, events)
            /\ dawScheduled' = HandleIds(NextId(clearScheduled(timeline, dawScheduled)), events)
            /\ dawRoundRobin' = ZeroCount
       ELSE UNCHANGED <<timeline, stemPlayers, dawScheduled, dawRoundRobin>>
  /\ UNCHANGED <<tState, tPos>>
  /\ UNCHANGED <<sampleSet, noteUrls, players, roundRobinIndex, volumeNodes,
                 muted, backing, scheduledEvents>>
  /\ UNCHANGED <<active, channels>>
  /\ UNCHANGED <<engineRef, isReady, isPlaying, isLoading, events,
                 currentSampleSet, isDawOpen, initPc>>
  /\ prior' = NoPrior
  /\ UNCHANGED <<trigCount, trip>>
  /\ UNCHANGED extVars

(***************************************************************************)
(* Releases of a disposal, in statement order.  Each release names the     *)
(* engine and the class of resource: scheduled handles (and the periodic   *)
(* metronome trigger), voices, gain buses, the backing-track source.       *)
(***************************************************************************)
Rel(engine, class) == [engine |-> engine, class |-> class]

(* DawMixerEngine.deactivate: handles, stem clones, channel nodes, then    *)
(* the metronome loop, synth and volume                                    *)
deactivateTrace(act, m) ==
  IF ~act THEN << >>
  ELSE <<Rel("daw", "handles"), Rel("daw", "voices"), Rel("daw", "buses")>>
       \o (IF m.part # NoPart THEN <<Rel("daw", "handles")>> ELSE << >>)
       \o (IF m.nodes THEN <<Rel("daw", "voices"), Rel("daw", "buses")>> ELSE << >>)

(* MidiPlaybackEngine.dispose: clearScheduled / stop / cancel, the sample  *)
(* players, the backing player, then the two volume nodes                  *)
disposeTrace(pl, b, nodes) ==
  <<Rel("base", "handles")>>
  \o (IF DOMAIN pl # {} THEN <<Rel("base", "voices")>> ELSE << >>)
  \o (IF b.state # None THEN <<Rel("base", "backing")>> ELSE << >>)
  \o (IF nodes THEN <<Rel("base", "buses")>> ELSE << >>)

(***************************************************************************)
(* Unmount of the provider (DawMixerEngine.dispose, then                   *)
(* MidiPlaybackEngine.dispose) followed by the mount of a fresh provider.  *)
(***************************************************************************)
Unmount ==
  /\ engineRef
  /\ csPc = "idle"
  /\ tState' = "stopped"
  /\ tPos' = 0
  /\ timeline' = {}
  /\ players' = << >>
  /\ backing' = NoBacking
  /\ volumeNodes' = FALSE
  /\ muted' = IF active THEN unmute(muted, volumeNodes) ELSE muted
  /\ isLoaded' = FALSE
  /\ scheduledEvents' = << >>
  /\ UNCHANGED <<sampleSet, noteUrls, roundRobinIndex>>
  /\ active' = FALSE
  /\ channels' = << >>
  /\ stemPlayers' = << >>
  /\ dawScheduled' = << >>
  /\ dawRoundRobin' = ZeroCount
  /\ engineRef' = FALSE
  /\ isReady' = FALSE
  /\ isPlaying' = FALSE
  /\ isLoading' = FALSE
  /\ events' = << >>
  /\ currentSampleSet' = "default"
  /\ isDawOpen' = FALSE
  /\ initPc' = "idle"
  /\ csPc' = "idle"
  /\ loadStatus' = None
  /\ fired' = << >>
  /\ trigCount' = ZeroCount
  /\ prior' = NoPrior
  /\ trip' = NoTrip
  /\ loadError' = {}
  /\ midiVol' = InitialSlider
  /\ backingVol' = InitialSlider
  /\ midiDb' = 0
  /\ backingDb' = 0
  /\ metro' = NoMetro
  /\ unmutedVolume' = NoSaved
  /\ disposal' = deactivateTrace(active, metro) \o disposeTrace(players, backing, volumeNodes)
  /\ stray' = IF stray.pc = "loading" THEN [stray EXCEPT !.origin = "unmount"] ELSE stray
  /\ UNCHANGED exportVars

Next ==
  \/ Tick
  \/ Play
  \/ Pause
  \/ Stop
  \/ Seek
  \/ SampleLoaded
  \/ InitStart
  \/ InitManifestOk
  \/ InitSamplesDone
  \/ BackingLoaded
  \/ InitFinish
  \/ InitFail
  \/ OpenDaw
  \/ CloseDaw
  \/ ChangeSamplesStart
  \/ ChangeSamplesManifestOk
  \/ ChangeSamplesFail
  \/ ChangeSamplesDone
  \/ Unmount

Spec == Init /\ [][Next]_vars


(***************************************************************************)
(* MidiPlaybackEngine.loadBackingTrack called on a published engine, as    *)
(* the class and the useMidiPlayer hook allow at any time.                 *)
(***************************************************************************)
LoadBackingTrack ==
  /\ engineRef
  /\ volumeNodes
  /\ backing' = [state |-> "loading", conn |-> {"base"}]
  /\ fired' = << >>
  /\ UNCHANGED transportVars
  /\ UNCHANGED <<sampleSet, isLoaded, noteUrls, players, roundRobinIndex,
                 volumeNodes, muted, scheduledEvents>>
  /\ UNCHANGED <<dawVars, providerVars>>
  /\ UNCHANGED <<trigCount, prior, trip>>
  /\ UNCHANGED extVars

(***************************************************************************)
(* Loads that fail.  The fetch or decode of a sample or of the backing     *)
(* track fails inside its Tone.Player: the player never becomes loaded.    *)
(***************************************************************************)
SampleFailed ==
  /\ initPc = "samples" \/ csPc = "samples"
  /\ \E u \in DOMAIN players \ loadError :
       /\ ~players[u]
       /\ loadError' = loadError \cup {u}
  /\ fired' = << >>
  /\ UNCHANGED transportVars
  /\ UNCHANGED <<engineVars, dawVars, providerVars>>
  /\ UNCHANGED <<trigCount, prior, trip>>
  /\ UNCHANGED <<gainVars, metroVars, exportVars, lifeVars>>

BackingFailed ==
  /\ backing.state = "loading"
  /\ initPc \in {"backing", "done"}
  /\ backing' = [backing EXCEPT !.state = "failed"]
  /\ fired' = << >>
  /\ UNCHANGED transportVars
  /\ UNCHANGED <<sampleSet, isLoaded, noteUrls, players, roundRobinIndex,
                 volumeNodes, muted, scheduledEvents>>
  /\ UNCHANGED <<dawVars, providerVars>>
  /\ UNCHANGED <<trigCount, prior, trip>>
  /\ UNCHANGED extVars

NextLive ==
  \/ InitStart
  \/ InitManifestOk
  \/ SampleLoaded
  \/ SampleFailed
  \/ InitSamplesDone
  \/ BackingLoaded
  \/ BackingFailed
  \/ InitFinish
  \/ InitFail
  \/ ChangeSamplesStart
  \/ ChangeSamplesManifestOk
  \/ ChangeSamplesFail
  \/ ChangeSamplesDone

(* every step of a load that can be taken is taken: a pending fetch settles *)
(* and the continuation of a settled await runs                             *)
SpecLive ==
  /\ Init
  /\ [][NextLive]_vars
  /\ WF_vars(InitManifestOk)
  /\ WF_vars(SampleLoaded)
  /\ WF_vars(InitSamplesDone)
  /\ WF_vars(BackingLoaded)
  /\ WF_vars(InitFinish)
  /\ WF_vars(ChangeSamplesManifestOk)
  /\ WF_vars(ChangeSamplesDone)

NextApi ==
  \/ InitStart
  \/ InitManifestOk
  \/ SampleLoaded
  \/ InitSamplesDone
  \/ BackingLoaded
  \/ InitFinish
  \/ InitFail
  \/ OpenDaw
  \/ CloseDaw
  \/ ChangeSamplesStart
  \/ ChangeSamplesManifestOk
  \/ ChangeSamplesFail
  \/ ChangeSamplesDone
  \/ LoadBackingTrack

SpecApi == Init /\ [][NextApi]_vars

(***************************************************************************)
(* The mixer on its own: the operations that create, destroy or change     *)
(* channels, after the player was initialized.                             *)
(***************************************************************************)
NextMixer ==
  \/ InitStart
  \/ InitManifestOk
  \/ SampleLoaded
  \/ InitSamplesDone
  \/ BackingLoaded
  \/ InitFinish
  \/ OpenDaw
  \/ CloseDaw
  \/ ToggleMute
  \/ ToggleSolo

SpecMixer == Init /\ [][NextMixer]_vars

(***************************************************************************)
(* The MidiPlayer volume sliders: the slider state and the engine's bus.   *)
(* A Tone.Volume reads muted exactly when its volume value is -Infinity.   *)
(***************************************************************************)
SliderFrame ==
  /\ fired' = << >>
  /\ UNCHANGED transportVars
  /\ UNCHANGED <<sampleSet, isLoaded, noteUrls, players, roundRobinIndex,
                 volumeNodes, backing, scheduledEvents>>
  /\ UNCHANGED <<dawVars, providerVars>>
  /\ UNCHANGED <<trigCount, prior, trip>>
  /\ UNCHANGED <<loadVars, metroVars, exportVars, lifeVars>>

(* onChange of the MIDI slider: setMidiVol(v), setMidiVolume(sliderToDb(v)) *)
SetMidiSlider(v) ==
  /\ isReady
  /\ midiVol' = v
  /\ midiDb' = IF engineRef /\ volumeNodes THEN sliderToDb(v) ELSE midiDb
  /\ muted' = IF engineRef /\ volumeNodes
                THEN [muted EXCEPT !.midi = (sliderToDb(v) = NegInf)] ELSE muted
  /\ UNCHANGED <<backingVol, backingDb, unmutedVolume>>
  /\ SliderFrame

MoveSlider == \E v \in Sliders : SetMidiSlider(v)

(***************************************************************************)
(* The mixer with gains and the metronome: topology switches, mute, solo   *)
(* and volume of the channels in MixIds, and setMetronome.                 *)
(***************************************************************************)
NextGain ==
  \/ InitStart
  \/ InitManifestOk
  \/ SampleLoaded
  \/ InitSamplesDone
  \/ BackingLoaded
  \/ InitFinish
  \/ OpenDaw
  \/ CloseDaw
  \/ MixToggleMute
  \/ MixToggleSolo
  \/ SetChannelVolume
  \/ SetMetronome
  \/ MoveSlider

SpecGain == Init /\ [][NextGain]_vars

(***************************************************************************)
(* Offline export: exportMix (waveform.ts), DawMixerEngine.exportMaster    *)
(* and exportChannelAudio, and the three handlers that call them.          *)
(***************************************************************************)
Faults == {"network", "http", "decode"}

ExportChannels == {"kick", "backing"}

(* duration of the backing track, in seconds *)
BackingDuration == 2

RECURSIVE SetToSeq(_)
SetToSeq(S) ==
  IF S = {} THEN << >>
  ELSE LET x == CHOOSE y \in S : TRUE IN <<x>> \o SetToSeq(S \ {x})

(* the notes whose events an export renders *)
keptNotes(kind, ch) ==
  IF kind = "channel" THEN SeqToSet(STEM_MIDI_NOTES[ch])
  ELSE DOMAIN GM_NOTE_TO_INSTRUMENT \cup EventNotes

(* urlsToFetch: exportMix collects the variants of the notes the events    *)
(* use, exportChannelAudio those of the channel's notes                    *)
urlsToFetch(kind, ch, evs, nu) ==
  IF kind = "channel"
    THEN UNION {SeqToSet(UrlsOf(nu, n)) : n \in SeqToSet(STEM_MIDI_NOTES[ch])}
    ELSE UNION {SeqToSet(UrlsOf(nu, evs[i].midi_note)) : i \in DOMAIN evs}

Source(e, idx, url, mg) ==
  [time |-> e.quantized_time, idx |-> idx, url |-> url,
   vel |-> velGain(e.velocity), gain |-> (velGain(e.velocity) * mg) \div 10000]

NoUrl == <<None, None>>

(* a render loop that takes the i-th decoded buffer instead of the buffer  *)
(* of the selected URL                                                     *)
RECURSIVE renderLoopByArrival(_, _, _, _, _, _, _, _)
renderLoopByArrival(evs, i, rr, keep, nu, buffers, mg, acc) ==
  IF i > Len(evs) THEN acc
  ELSE LET e == evs[i]
           note == e.midi_note
           urls == UrlsOf(nu, note)
       IN IF note \notin keep
            THEN renderLoopByArrival(evs, i + 1, rr, keep, nu, buffers, mg,
                                     Append(acc, Source(e, -2, NoUrl, 0)))
          ELSE IF Len(urls) = 0 \/ Len(buffers) = 0
            THEN renderLoopByArrival(evs, i + 1, rr, keep, nu, buffers, mg,
                                     Append(acc, Source(e, -1, NoUrl, 0)))
          ELSE LET idx == rr[note]
                   url == buffers[(idx % Len(buffers)) + 1]
               IN renderLoopByArrival(evs, i + 1, Bump(rr, note), keep, nu, buffers, mg,
                                      Append(acc, Source(e, idx % Len(urls), url, mg)))

(* the round-robin loop of exportMix and exportChannelAudio over the event *)
(* list in list order: an event outside the channel is filtered (-2), an   *)
(* event without variants or without a decoded buffer is skipped (-1)      *)
RECURSIVE renderLoop(_, _, _, _, _, _, _, _)
renderLoop(evs, i, rr, keep, nu, buffers, mg, acc) ==
  IF i > Len(evs) THEN acc
  ELSE LET e == evs[i]
           note == e.midi_note
           urls == UrlsOf(nu, note)
       IN IF note \notin keep
            THEN renderLoop(evs, i + 1, rr, keep, nu, buffers, mg,
                            Append(acc, Source(e, -2, NoUrl, 0)))
          ELSE IF Len(urls) = 0
            THEN renderLoop(evs, i + 1, rr, keep, nu, buffers, mg,
                            Append(acc, Source(e, -1, NoUrl, 0)))
          ELSE LET idx == rr[note]
                   url == PickVariant(urls, idx)
               IN IF url \notin SeqToSet(buffers)
                    THEN renderLoop(evs, i + 1, Bump(rr, note), keep, nu, buffers, mg,
                                    Append(acc, Source(e, -1, NoUrl, 0)))
                    ELSE renderLoop(evs, i + 1, Bump(rr, note), keep, nu, buffers, mg,
                                    Append(acc, Source(e, idx % Len(urls), url, mg)))

(* the offline graph an export renders: the backing source with its gain   *)
(* (exportMix only), the length of the context and one source per event    *)
render(kind, ch, inp, buffers, dur) ==
  [backingGain |-> IF kind = "channel" THEN 0 ELSE inp.backingGain,
   dur |-> dur,
   sources |-> renderLoop(inp.events, 1, ZeroCount, keptNotes(kind, ch),
                          buildNoteUrls(inp.kit), buffers,
                          IF kind = "channel" THEN 10000 ELSE inp.midiGain, << >>)]

(* baseEngine.duration || 30 of exportChannelAudio; exportMix takes the    *)
(* duration of the backing buffer it decoded                               *)
renderDuration(kind, b) ==
  IF kind = "channel" /\ b.state # "synced" THEN 30 ELSE BackingDuration

(* gain with which a multi-bus channel is heard *)
ChannelGain(c) == IF channels[c].nodeMute THEN 0 ELSE dbToLinear(channels[c].volume)

(* linear gains in effect for live monitoring: the drum buses and the      *)
(* backing bus of the routing path in use                                  *)
liveGains ==
  IF active
    THEN [drum |-> {ChannelGain(c) : c \in StemIds},
          backing |-> {ChannelGain("backing")}]
    ELSE [drum |-> {IF muted.midi THEN 0 ELSE dbToLinear(midiDb)},
          backing |-> {IF muted.backing THEN 0 ELSE dbToLinear(backingDb)}]

ExportFrame ==
  /\ fired' = << >>
  /\ UNCHANGED <<tPos, timeline>>
  /\ UNCHANGED <<engineVars, dawVars>>
  /\ UNCHANGED <<engineRef, isReady, isLoading, events, currentSampleSet,
                 isDawOpen, initPc, csPc, loadStatus>>
  /\ UNCHANGED <<trigCount, prior, trip>>
  /\ UNCHANGED <<midiOut, wav>>
  /\ UNCHANGED <<loadVars, gainVars, metroVars, lifeVars>>

ExportIdle == exp.pc \in {"idle", "done", "failed"}

StartedExport(kind, ch, inp, pc, ts) ==
  [NoExport EXCEPT !.pc = pc, !.kind = kind, !.ch = ch, !.inputs = inp,
                   !.exporting = TRUE, !.startState = ts, !.live = liveGains]

(* MidiPlayer.handleExport up to the first await of exportMix *)
ExportMixStart ==
  /\ isReady
  /\ ~isDawOpen
  /\ ExportIdle
  /\ tState' = IF isPlaying /\ engineRef THEN TransportPause(tState) ELSE tState
  /\ isPlaying' = FALSE
  /\ exp' = StartedExport("mix", None,
                          [events |-> events, kit |-> currentSampleSet,
                           midiGain |-> dbToLinear(sliderToDb(midiVol)),
                           backingGain |-> dbToLinear(sliderToDb(backingVol))],
                          "backing", tState')
  /\ ExportFrame

(* DawTopBar.handleExportMaster -> exportMaster -> exportMix(url, events, 1, 1, kit) *)
ExportMasterStart ==
  /\ engineRef
  /\ isDawOpen
  /\ ExportIdle
  /\ exp' = StartedExport("master", None,
                          [events |-> events, kit |-> currentSampleSet,
                           midiGain |-> 10000, backingGain |-> 10000],
                          "backing", tState)
  /\ UNCHANGED <<tState, isPlaying>>
  /\ ExportFrame

(* DawChannelStrip.handleExportAudio -> exportChannelAudio(channel.id, ...) *)
ExportChannelStart ==
  /\ engineRef
  /\ isDawOpen
  /\ ExportIdle
  /\ \E ch \in ExportChannels \cap DOMAIN channels :
       exp' = StartedExport("channel", ch,
                            [events |-> events, kit |-> currentSampleSet,
                             midiGain |-> 10000, backingGain |-> 0],
                            IF ch = "backing" THEN "backing" ELSE "manifest", tState)
  /\ UNCHANGED <<tState, isPlaying>>
  /\ ExportFrame

(* what the handler does with the Blob: download it, finally exporting = false *)
Delivered(e, res) ==
  [e EXCEPT !.pc = "done", !.result = res, !.blobs = @ + 1, !.exporting = FALSE,
            !.startState = None, !.live = NoLive]

(* the export rejects: catch logs, finally exporting = false *)
Rejected(e, f) ==
  [e EXCEPT !.pc = "failed", !.fault = f, !.failures = @ + 1, !.exporting = FALSE,
            !.fetched = << >>, !.startState = None, !.live = NoLive]

RawBacking == [backingGain |-> 10000, dur |-> BackingDuration, sources |-> << >>]

(* the fetch of the backing resource answers with the audio; exportMix     *)
(* decodes it, the backing channel export returns response.blob()          *)
ExportBackingOk ==
  /\ exp.pc = "backing"
  /\ exp' = IF exp.kind = "channel" THEN Delivered(exp, RawBacking)
            ELSE [exp EXCEPT !.pc = "manifest"]
  /\ UNCHANGED <<tState, isPlaying>>
  /\ ExportFrame

(* buildDrumSampleUrls of the export resolves *)
ExportManifestOk ==
  /\ exp.pc = "manifest"
  /\ exp' = [exp EXCEPT !.pc = "samples"]
  /\ UNCHANGED <<tState, isPlaying>>
  /\ ExportFrame

(* one fetch and decode of a sample completes and fills sampleBuffers *)
ExportSampleFetched ==
  /\ exp.pc = "samples"
  /\ \E u \in urlsToFetch(exp.kind, exp.ch, exp.inputs.events,
                          buildNoteUrls(exp.inputs.kit)) \ SeqToSet(exp.fetched) :
       exp' = [exp EXCEPT !.fetched = Append(@, u)]
  /\ UNCHANGED <<tState, isPlaying>>
  /\ ExportFrame

(* Promise.all resolved: build the offline graph, render, encode *)
ExportRender ==
  /\ exp.pc = "samples"
  /\ urlsToFetch(exp.kind, exp.ch, exp.inputs.events, buildNoteUrls(exp.inputs.kit))
       = SeqToSet(exp.fetched)
  /\ exp' = Delivered(exp, render(exp.kind, exp.ch, exp.inputs, exp.fetched,
                                  renderDuration(exp.kind, backing)))
  /\ UNCHANGED <<tState, isPlaying>>
  /\ ExportFrame

ErrorBody == [backingGain |-> 0, dur |-> 0, sources |-> << >>]

(* a fetch or decode of the step in progress fails.  fetch rejects on a    *)
(* network error only; an HTTP error response resolves, and its body then  *)
(* fails to decode where the export decodes it.  The backing channel       *)
(* export does not decode: it returns the body of whatever response came.  *)
ExportFault ==
  /\ exp.pc \in {"backing", "manifest", "samples"}
  /\ \E f \in Faults :
       IF exp.kind = "channel" /\ exp.ch = "backing"
         THEN /\ f # "decode"
              /\ exp' = IF f = "http"
                          THEN [Delivered(exp, ErrorBody) EXCEPT !.fault = f]
                          ELSE Rejected(exp, f)
         ELSE exp' = Rejected(exp, f)
  /\ UNCHANGED <<tState, isPlaying>>
  /\ ExportFrame

NextExport ==
  \/ InitStart
  \/ InitManifestOk
  \/ SampleLoaded
  \/ InitSamplesDone
  \/ BackingLoaded
  \/ InitFinish
  \/ Play
  \/ Pause
  \/ Tick
  \/ OpenDaw
  \/ CloseDaw
  \/ MixToggleMute
  \/ MoveSlider
  \/ ExportMixStart
  \/ ExportMasterStart
  \/ ExportChannelStart
  \/ ExportBackingOk
  \/ ExportManifestOk
  \/ ExportSampleFetched
  \/ ExportRender
  \/ ExportFault

SpecExport == Init /\ [][NextExport]_vars

(***************************************************************************)
(* Per-channel MIDI export: DawMixerEngine.exportChannelMidi and           *)
(* exportEventsAsMidi.  Times of the file are ticks at 480 per quarter     *)
(* note; the model's times are whole seconds.                              *)
(***************************************************************************)
PPQ == 480

MidiChannels == {"kick", "snare", "cymbals", "backing", "aux"}

(* header.secondsToTicks for a time in milliseconds *)
secondsToTicks(ms, bpm) == (ms * bpm * PPQ) \div 60000

(* velocity / 127 handed to addNote, as a fraction *)
normVelocity(velocity) == <<velocity, 127>>

(* the velocity byte of the note-on: floor(velocity01 * 127) *)
encodeVelocity(q) == (q[1] * 127) \div q[2]

MidiNote(e, bpm) ==
  [midi |-> e.midi_note,
   ticks |-> secondsToTicks(e.quantized_time * 1000, bpm),
   durationTicks |-> secondsToTicks(50, bpm),
   velocity |-> encodeVelocity(normVelocity(e.velocity))]

exportEventsAsMidi(evs, bpm) ==
  [tempo |-> bpm, tracks |-> 1, channel |-> 9,
   notes |-> [i \in DOMAIN evs |-> MidiNote(evs[i], bpm)]]

InChannel(e, id) == e.midi_note \in SeqToSet(STEM_MIDI_NOTES[id])

(* exportChannelMidi that writes every event of the list *)
exportChannelMidiAll(chs, id, evs, bpm) ==
  IF id \notin DOMAIN chs \/ id \notin StemIds
    THEN [status |-> "error", ch |-> id, known |-> id \in DOMAIN chs, bpm |-> bpm,
          events |-> evs, file |-> None]
    ELSE [status |-> "ok", ch |-> id, known |-> TRUE, bpm |-> bpm, events |-> evs,
          file |-> exportEventsAsMidi(evs, bpm)]

(* DawMixerEngine.exportChannelMidi: throws unless the channel exists and  *)
(* is a drum stem                                                          *)
exportChannelMidi(chs, id, evs, bpm) ==
  IF id \notin DOMAIN chs \/ id \notin StemIds
    THEN [status |-> "error", ch |-> id, known |-> id \in DOMAIN chs, bpm |-> bpm,
          events |-> evs, file |-> None]
    ELSE [status |-> "ok", ch |-> id, known |-> TRUE, bpm |-> bpm, events |-> evs,
          file |-> exportEventsAsMidi(SelectSeq(evs, LAMBDA e : InChannel(e, id)), bpm)]

ExportChannelMidiOn(id, bpm) ==
  /\ engineRef
  /\ midiOut' = exportChannelMidi(channels, id, events, bpm)
  /\ fired' = << >>
  /\ UNCHANGED <<transportVars, engineVars, dawVars, providerVars>>
  /\ UNCHANGED <<trigCount, prior, trip>>
  /\ UNCHANGED <<exp, wav>>
  /\ UNCHANGED <<loadVars, gainVars, metroVars, lifeVars>>

ExportChannelMidi == \E id \in MidiChannels, bpm \in Bpms : ExportChannelMidiOn(id, bpm)

NextMidi ==
  \/ InitStart
  \/ InitManifestOk
  \/ SampleLoaded
  \/ InitSamplesDone
  \/ BackingLoaded
  \/ InitFinish
  \/ OpenDaw
  \/ CloseDaw
  \/ ExportChannelMidi

SpecMidi == Init /\ [][NextMidi]_vars

(***************************************************************************)
(* encodeWav (waveform.ts and daw-engine.ts hold the same function).  A    *)
(* sample is a number in thousandths; the DataView is the sequence of its  *)
(* bytes, offset o at index o + 1.                                         *)
(***************************************************************************)
MaxFrames == 2

MaxChannels == 2

SampleRates == {44100, 48000}

WavSamples == {-1500, -1000, -250, 0, 1000, 1500}

WavBuffers ==
  {[sampleRate |-> r, channels |-> c] :
     r \in SampleRates,
     c \in UNION {[1..C -> [1..F -> WavSamples]] : C \in 1..MaxChannels, F \in 0..MaxFrames}}

setUint8(view, offset, v) == [view EXCEPT ![offset + 1] = v % 256]

setUint16(view, offset, v) ==
  setUint8(setUint8(view, offset, v % 65536), offset + 1, (v % 65536) \div 256)

setUint32(view, offset, v) ==
  setUint16(setUint16(view, offset, v % 65536), offset + 2, (v \div 65536) % 65536)

(* setInt16 stores the integer part of its argument modulo 2^16 *)
setInt16(view, offset, v) == setUint16(view, offset, v % 65536)

RECURSIVE writeString(_, _, _)
writeString(view, offset, str) ==
  IF str = << >> THEN view
  ELSE writeString(setUint8(view, offset, Head(str)), offset + 1, Tail(str))

(* integer part of n / d, d > 0 *)
Trunc(n, d) == IF n >= 0 THEN n \div d ELSE -((-n) \div d)

(* a sample taken as it is *)
clampNone(sample) == sample

(* Math.max(-1, Math.min(1, sample)) *)
clamp(sample) == IF sample < -1000 THEN -1000 ELSE IF sample > 1000 THEN 1000 ELSE sample

(* the interleaving loop, frame i and channel ch next; w carries the view, *)
(* the write offset and the offsets written so far                         *)
RECURSIVE writeSamples(_, _, _, _)
writeSamples(w, chans, i, ch) ==
  IF i > Len(chans[1]) THEN w
  ELSE IF ch > Len(chans) THEN writeSamples(w, chans, i + 1, 1)
  ELSE writeSamples(
         [view |-> setInt16(w.view, w.offset, Trunc(clamp(chans[ch][i]) * 32767, 1000)),
          offset |-> w.offset + 2,
          written |-> Append(w.written, w.offset)],
         chans, i, ch + 1)

encodeWav(audioBuffer) ==
  LET numChannels == Len(audioBuffer.channels)
      sampleRate == audioBuffer.sampleRate
      numFrames == Len(audioBuffer.channels[1])
      bytesPerSample == 2
      dataSize == numFrames * numChannels * bytesPerSample
      v0 == [o \in 1..(44 + dataSize) |-> 0]
      v1 == writeString(v0, 0, <<82, 73, 70, 70>>)
      v2 == setUint32(v1, 4, 36 + dataSize)
      v3 == writeString(v2, 8, <<87, 65, 86, 69>>)
      v4 == writeString(v3, 12, <<102, 109, 116, 32>>)
      v5 == setUint32(v4, 16, 16)
      v6 == setUint16(v5, 20, 1)
      v7 == setUint16(v6, 22, numChannels)
      v8 == setUint32(v7, 24, sampleRate)
      v9 == setUint32(v8, 28, sampleRate * numChannels * bytesPerSample)
      v10 == setUint16(v9, 32, numChannels * bytesPerSample)
      v11 == setUint16(v10, 34, bytesPerSample * 8)
      v12 == writeString(v11, 36, <<100, 97, 116, 97>>)
      v13 == setUint32(v12, 40, dataSize)
  IN writeSamples([view |-> v13, offset |-> 44, written |-> << >>],
                  audioBuffer.channels, 1, 1)

(* encodeWav applied to a rendered buffer, once per run *)
EncodeWav ==
  /\ ~wav.encoded
  /\ \E buf \in WavBuffers : wav' = [encoded |-> TRUE, in |-> buf, out |-> encodeWav(buf)]
  /\ UNCHANGED <<transportVars, engineVars, dawVars, providerVars, obsVars>>
  /\ UNCHANGED <<exp, midiOut>>
  /\ UNCHANGED <<loadVars, gainVars, metroVars, lifeVars>>

SpecWav == Init /\ [][EncodeWav]_vars

(***************************************************************************)
(* Engine instances and the process-wide transport.  initialize publishes  *)
(* its engine in engineRef only after the last await, so an unmount or a   *)
(* second initialize in between finds engineRef.current null.  stray is an *)
(* engine no mounted provider will dispose; its loads are abstracted to    *)
(* one step, its handles are on the same timeline with owner "stray".      *)
(***************************************************************************)
(* state of a freshly mounted provider, the transport left as it is *)
FreshMount ==
  /\ players' = << >>
  /\ backing' = NoBacking
  /\ volumeNodes' = FALSE
  /\ muted' = Unmuted
  /\ isLoaded' = FALSE
  /\ scheduledEvents' = << >>
  /\ sampleSet' = "default"
  /\ noteUrls' = << >>
  /\ roundRobinIndex' = ZeroCount
  /\ active' = FALSE
  /\ channels' = << >>
  /\ stemPlayers' = << >>
  /\ dawScheduled' = << >>
  /\ dawRoundRobin' = ZeroCount
  /\ engineRef' = FALSE
  /\ isReady' = FALSE
  /\ isPlaying' = FALSE
  /\ isLoading' = FALSE
  /\ events' = << >>
  /\ currentSampleSet' = "default"
  /\ isDawOpen' = FALSE
  /\ initPc' = "idle"
  /\ csPc' = "idle"
  /\ loadStatus' = None
  /\ fired' = << >>
  /\ trigCount' = ZeroCount
  /\ prior' = NoPrior
  /\ trip' = NoTrip
  /\ loadError' = {}
  /\ midiVol' = InitialSlider
  /\ backingVol' = InitialSlider
  /\ midiDb' = 0
  /\ backingDb' = 0
  /\ metro' = NoMetro
  /\ unmutedVolume' = NoSaved

(* the provider is unmounted while initialize awaits its loads: the cleanup *)
(* finds both refs null and disposes nothing; a fresh provider is mounted   *)
UnmountLoading ==
  /\ ~engineRef
  /\ initPc \in {"manifest", "samples", "backing"}
  /\ stray.pc = None
  /\ FreshMount
  /\ stray' = [pc |-> "loading", origin |-> "unmount", kit |-> sampleSet, handles |-> << >>]
  /\ disposal' = << >>
  /\ UNCHANGED transportVars
  /\ UNCHANGED exportVars

(* the loads of the abandoned initialize settle: it goes on to             *)
(* scheduleEvents on the transport and assigns the ref of the unmounted    *)
(* provider                                                                *)
AbandonedSettles ==
  /\ stray.pc = "loading"
  /\ stray.origin = "unmount"
  /\ \E evs \in EventLists :
       /\ timeline' = schedule(timeline, NextId(timeline), evs, "stray")
       /\ stray' = [stray EXCEPT !.pc = "scheduled",
                                 !.handles = HandleIds(NextId(timeline), evs)]
  /\ fired' = << >>
  /\ UNCHANGED <<tState, tPos>>
  /\ UNCHANGED <<engineVars, dawVars, providerVars>>
  /\ UNCHANGED <<trigCount, prior, trip>>
  /\ UNCHANGED <<loadVars, gainVars, metroVars, exportVars, disposal>>

(* initialize called again while the first call awaits its loads: the guard *)
(* reads engineRef.current, still null, and a second engine is created      *)
Init2Start ==
  /\ ~engineRef
  /\ initPc \in {"manifest", "samples", "backing"}
  /\ stray.pc = None
  /\ stray' = [pc |-> "loading", origin |-> "second", kit |-> currentSampleSet,
               handles |-> << >>]
  /\ fired' = << >>
  /\ UNCHANGED transportVars
  /\ UNCHANGED <<engineVars, dawVars, providerVars>>
  /\ UNCHANGED <<trigCount, prior, trip>>
  /\ UNCHANGED <<loadVars, gainVars, metroVars, exportVars, disposal>>

(* handles of the engine that engineRef stops referencing *)
Orphaned(tl, ids) ==
  {IF h.id \in SeqToSet(ids) THEN [h EXCEPT !.owner = "stray"] ELSE h : h \in tl}

(* the second initialize settles after the first has published its engine: *)
(* it schedules its events and overwrites engineRef and dawEngineRef; the  *)
(* first engine is referenced by nothing                                   *)
SecondInitFinish ==
  /\ stray.pc = "loading"
  /\ stray.origin = "second"
  /\ engineRef
  /\ initPc = "done"
  /\ csPc = "idle"
  /\ ~active
  /\ ExportIdle
  /\ \E evs \in EventLists :
       LET kept == Orphaned(timeline, scheduledEvents)
       IN /\ events' = evs
          /\ timeline' = schedule(kept, NextId(kept), evs, "base")
          /\ scheduledEvents' = HandleIds(NextId(kept), evs)
  /\ stray' = [pc |-> "scheduled", origin |-> "second", kit |-> sampleSet,
               handles |-> scheduledEvents]
  /\ sampleSet' = stray.kit
  /\ noteUrls' = buildNoteUrls(stray.kit)
  /\ players' = [u \in buildAllUrls(stray.kit) |-> TRUE]
  /\ roundRobinIndex' = ZeroCount
  /\ isLoaded' = TRUE
  /\ volumeNodes' = TRUE
  /\ muted' = Unmuted
  /\ backing' = [state |-> "synced", conn |-> {"base"}]
  /\ active' = FALSE
  /\ channels' = << >>
  /\ stemPlayers' = << >>
  /\ dawScheduled' = << >>
  /\ dawRoundRobin' = ZeroCount
  /\ metro' = NoMetro
  /\ midiDb' = 0
  /\ backingDb' = 0
  /\ unmutedVolume' = NoSaved
  /\ isReady' = TRUE
  /\ isLoading' = FALSE
  /\ loadStatus' = "ready"
  /\ fired' = << >>
  /\ trigCount' = ZeroCount
  /\ UNCHANGED <<tState, tPos>>
  /\ UNCHANGED <<engineRef, isPlaying, currentSampleSet, isDawOpen, initPc, csPc>>
  /\ UNCHANGED <<prior, trip>>
  /\ UNCHANGED <<loadVars, midiVol, backingVol, exportVars, disposal>>

NextLife ==
  \/ InitStart
  \/ InitManifestOk
  \/ SampleLoaded
  \/ InitSamplesDone
  \/ BackingLoaded
  \/ InitFinish
  \/ UnmountLoading
  \/ AbandonedSettles
  \/ Init2Start
  \/ SecondInitFinish
  \/ OpenDaw
  \/ CloseDaw
  \/ Play
  \/ Tick
  \/ Unmount

SpecLife == Init /\ [][NextLife]_vars

(***************************************************************************)
(* Properties                                                              *)
(***************************************************************************)
OwnedBy(owner) == {h \in timeline : h.owner = owner}

InstalledSet(owner, ids, evs) ==
  {[id |-> ids[i], time |-> evs[i].quantized_time, owner |-> owner, ev |-> evs[i]] :
     i \in DOMAIN evs}

FiredIds(log) == {log[i].id : i \in DOMAIN log}

(* C1: reschedule integrity.  The handles an engine has outstanding on the *)
(* transport are exactly the handles of its most recent install, one per   *)
(* event of the installed list; nothing of an earlier install remains, and *)
(* a tick only invokes handles of the most recent installs, each once.     *)
C1_RescheduleIntegrity ==
  /\ engineRef =>
       /\ Len(scheduledEvents) = Len(events)
       /\ OwnedBy("base") = InstalledSet("base", scheduledEvents, events)
       /\ Cardinality(OwnedBy("base")) = Len(events)
  /\ ~engineRef => timeline = {}
  /\ IF active
       THEN /\ Len(dawScheduled) = Len(events)
            /\ OwnedBy("daw") = InstalledSet("daw", dawScheduled, events)
            /\ Cardinality(OwnedBy("daw")) = Len(events)
       ELSE OwnedBy("daw") = {}
  /\ FiredIds(fired) \subseteq SeqToSet(scheduledEvents) \cup SeqToSet(dawScheduled)
  /\ Cardinality(FiredIds(fired)) = Len(fired)

(* a tick fired handles installed by closeDaw, which replaced the earlier installs *)
C1_Witness ==
  /\ engineRef
  /\ ~active
  /\ Len(fired) > 0
  /\ trip.phase = "closed"

(* C2: every event of the current list has exactly one outstanding         *)
(* callback on the shared transport, also after a topology switch.         *)
C2_OneCallbackPerEvent ==
  engineRef =>
    /\ Cardinality(timeline) = Len(events)
    /\ \A i \in DOMAIN events :
         Cardinality({h \in timeline : h.ev = events[i]}) = 1

(* C3: a channel's bus gate is open iff (no channel has solo and the       *)
(* channel is not muted) or (the channel has solo and is not muted).       *)
C3_Audibility ==
  \A c \in DOMAIN channels :
    LET noSolo == \A d \in DOMAIN channels : ~channels[d].solo
    IN (~channels[c].nodeMute) <=>
         \/ noSolo /\ ~channels[c].muted
         \/ channels[c].solo /\ ~channels[c].muted

(* three channels in three different mute/solo combinations *)
C3_Witness ==
  /\ active
  /\ channels["kick"].solo /\ channels["kick"].muted
  /\ channels["snare"].solo /\ ~channels["snare"].muted
  /\ ~channels["hh"].solo /\ ~channels["hh"].muted
  /\ channels["backing"].muted

(* C4: the k-th logical trigger of an instrument with N variants selects   *)
(* variant k mod N.                                                        *)
C4_RoundRobin ==
  \A i \in DOMAIN fired :
    (fired[i].logical /\ fired[i].n > 0) => fired[i].idx = fired[i].k % fired[i].n

(* C5: while the backing source exists it is connected to exactly one bus, *)
(* the multi-bus backing channel when multi-bus mode is active and the     *)
(* integrated backing bus otherwise.                                       *)
C5_BackingOneBus ==
  backing.state # None => backing.conn = {IF active THEN "daw" ELSE "base"}

(* C6: after activate followed by deactivate the integrated buses are      *)
(* unmuted, the backing source is on the integrated backing bus, nothing   *)
(* of the multi-bus path remains and the outstanding triggers have the     *)
(* number and times they had before the round trip.                        *)
C6_RoundTrip ==
  trip.phase = "closed" =>
    /\ ~active
    /\ muted = Unmuted
    /\ backing.conn = {"base"}
    /\ channels = << >>
    /\ stemPlayers = << >>
    /\ dawScheduled = << >>
    /\ OwnedBy("daw") = {}
    /\ TimesBag(timeline) = trip.before
    /\ Cardinality(timeline) = Len(events)

(* a completed round trip with triggers outstanding *)
C6_Witness ==
  /\ trip.phase = "closed"
  /\ timeline # {}
  /\ isReady

LegalTransition(s, t) ==
  \/ s \in {"stopped", "paused"} /\ t = "started"
  \/ s = "started" /\ t = "paused"
  \/ s \in {"started", "paused"} /\ t = "stopped"

(* C7: start moves stopped or paused to playing, pause moves playing to    *)
(* paused, stop moves playing or paused to stopped at position 0, seek     *)
(* sets the position in any state without changing the state, and no       *)
(* other transition of the transport state happens.                        *)
C7_TransportMachine ==
  [][ /\ (Play /\ engineRef) => (tState' = "started" /\ tPos' = tPos)
      /\ (Pause /\ engineRef /\ tState = "started") => (tState' = "paused" /\ tPos' = tPos)
      /\ (Stop /\ engineRef) => (tState' = "stopped" /\ tPos' = 0)
      /\ \A s \in 0..(MaxPos - 1) :
           (SeekTo(s) /\ engineRef) => (tPos' = s /\ tState' = tState)
      /\ tState' # tState => LegalTransition(tState, tState')
      /\ (tState' # tState /\ tState' = "stopped") => tPos' = 0
    ]_vars

(* paused in the middle of the timeline *)
C7_Witness ==
  /\ tState = "paused"
  /\ tPos > 0
  /\ ~isPlaying

(* C8: a tick at position p invokes every callback scheduled at p exactly  *)
(* once, only callbacks of events whose quantized_time is p, and moves on  *)
(* to p + 1; nothing fires outside a tick; play and pause keep the         *)
(* position and seek sets it, so events behind the position do not fire    *)
(* and events at or after it fire again.                                   *)
C8_TimePositionFiring ==
  [][ /\ Tick =>
           /\ tPos' = tPos + 1
           /\ FiredIds(fired') = {h.id : h \in Due(timeline, tPos)}
           /\ Len(fired') = Cardinality(Due(timeline, tPos))
           /\ \A i \in DOMAIN fired' : fired'[i].qt = tPos
           /\ \A i \in DOMAIN events :
                events[i].quantized_time = tPos =>
                  Cardinality({j \in DOMAIN fired' :
                                 fired'[j].logical /\ fired'[j].note = events[i].midi_note}) = 1
      /\ ~Tick => fired' = << >>
      /\ (Play \/ Pause) => tPos' = tPos
      /\ \A s \in 0..(MaxPos - 1) : (SeekTo(s) /\ engineRef) => tPos' = s
    ]_vars

(* an event fired a second time, after the position was moved back *)
C8_Witness ==
  /\ tState = "started"
  /\ \E i \in DOMAIN fired :
       /\ fired[i].logical
       /\ fired[i].k = 1
       /\ Cardinality({j \in DOMAIN events : events[j].midi_note = fired[i].note}) = 1

(* C9: a trigger that fires while a kit switch is in progress plays a      *)
(* fully loaded voice or is skipped; it never starts a voice that is not   *)
(* loaded.                                                                 *)
C9_AtomicKitSwitch ==
  \A i \in DOMAIN fired : fired[i].outcome # "started_unloaded"

(* C10: a failed load leaves the engine as it was before the call: kit id, *)
(* loaded flag, variant map, voice pool and the player's currentSampleSet. *)
C10_FailureLeavesPriorState ==
  loadStatus = "failed" =>
    IF engineRef THEN Snapshot = prior ELSE ~isReady

(* C11: whenever the player reports ready, all sample loads and the        *)
(* backing-track load are complete.                                        *)
C11_NoPartialReadiness ==
  isReady => (isLoaded /\ AllLoaded(players) /\ backing.state = "synced")

(* C12: every load that was started reaches a terminal status, ready or    *)
(* failed, and the loading flag returns to false.                          *)
C12_LoadTerminates ==
  /\ (loadStatus = "loading") ~> (loadStatus \in {"ready", "failed"})
  /\ isLoading ~> ~isLoading

(* live playback of a freshly installed list, once from position 0 to the  *)
(* end, with the kit fully loaded: the log of its triggers                 *)
RECURSIVE PlayThrough(_, _, _, _, _)
PlayThrough(w, tl, t, nu, pl) ==
  IF t >= MaxPos THEN w
  ELSE PlayThrough(FireAll(w, Due(tl, t), nu, pl, << >>, FALSE), tl, t + 1, nu, pl)

LiveLog(evs, kit) ==
  PlayThrough([rr |-> ZeroCount, drr |-> ZeroCount, cnt |-> ZeroCount, log |-> << >>],
              schedule({}, 0, evs, "base"), 0,
              buildNoteUrls(kit), [u \in buildAllUrls(kit) |-> TRUE]).log

(* the trigger of the i-th event of the list in a log *)
LiveOf(log, i) == log[CHOOSE j \in DOMAIN log : log[j].id = i - 1]

InFlight == exp.pc \in {"backing", "manifest", "samples"}

Rendered == exp.pc = "done" /\ exp.fault = None /\ ~(exp.kind = "channel" /\ exp.ch = "backing")

(* C13: the variant index and the velocity gain an offline render assigns  *)
(* to each event it renders equal those live playback assigns to that      *)
(* event when the list is played once from position 0.                     *)
C13_OfflineMatchesLive ==
  Rendered =>
    LET log == LiveLog(exp.inputs.events, exp.inputs.kit)
    IN \A i \in DOMAIN exp.result.sources :
         exp.result.sources[i].idx # -2 =>
           /\ exp.result.sources[i].idx = LiveOf(log, i).idx
           /\ exp.result.sources[i].vel = LiveOf(log, i).gain

(* C14: the master gains a mix or master export applies to the drum signal *)
(* and to the backing signal equal the linear gains in effect for live     *)
(* monitoring when the export is called.                                   *)
C14_ExportGainsMatchLive ==
  (InFlight /\ exp.kind \in {"mix", "master"}) =>
    /\ exp.live.drum = {exp.inputs.midiGain}
    /\ exp.live.backing = {exp.inputs.backingGain}

C16_ExportFailure ==
  exp.fault # None =>
    /\ exp.pc = "failed"
    /\ exp.failures = 1
    /\ exp.blobs = 0
    /\ ~exp.exporting

(* C17: the transport is not playing when the render call of an export is  *)
(* made.                                                                   *)
C17_PauseBeforeExport ==
  InFlight => exp.startState # "started"

DawHandles(tl) == {h \in tl : h.owner = "daw"}

(* C18: activate on an active multi-bus mode and deactivate on an inactive *)
(* one change no channel, dedicated voice, multi-bus handle, backing       *)
(* wiring, metronome or mute state of the integrated path; a mute, solo or *)
(* volume operation on an id no channel has changes no channel.            *)
C18_RedundantNoOp ==
  [][ /\ (OpenDaw /\ active) =>
           /\ UNCHANGED <<active, channels, stemPlayers, dawScheduled, timeline>>
           /\ UNCHANGED <<backing, metro, muted>>
      /\ (CloseDaw /\ ~active) =>
           /\ UNCHANGED <<active, channels, stemPlayers, dawScheduled>>
           /\ DawHandles(timeline') = DawHandles(timeline)
           /\ UNCHANGED <<backing, metro, muted>>
      /\ \A id \in MixIds \ DOMAIN channels :
           (\/ ToggleMuteOn(id)
            \/ ToggleSoloOn(id)
            \/ \E val \in DawSliders : SetChannelVolumeOn(id, val)) =>
             UNCHANGED <<channels, stemPlayers, dawScheduled, timeline, backing, metro, muted>>
    ]_vars

(* multi-bus mode is active with a changed mixer and a running metronome:  *)
(* the state a repeated activate must leave alone                          *)
C18_Witness ==
  /\ active
  /\ channels["kick"].muted
  /\ channels["backing"].volume # 0
  /\ metro.part # NoPart
  /\ dawScheduled # << >>
  /\ "aux" \notin DOMAIN channels

(* C19: a periodic metronome trigger exists iff the metronome is enabled   *)
(* and multi-bus mode is active, and its interval is 60/bpm for the bpm of *)
(* the most recent enabling call.                                          *)
C19_MetronomeTrigger ==
  /\ (metro.part # NoPart) <=> (metro.enabled /\ active)
  /\ metro.part # NoPart => metro.part = secondsPerBeat(metro.lastBpm)

(* C20: mute, solo, volume and metronome operations leave every handle of  *)
(* the schedule alone; setMetronome leaves the channels alone; a volume    *)
(* change writes the gain of the addressed channel only and a mute or solo *)
(* toggle flips the stored flag of the addressed channel only.             *)
C20_GateNotSchedule ==
  [][ /\ (MixToggleMute \/ MixToggleSolo \/ SetChannelVolume \/ SetMetronome) =>
           UNCHANGED <<timeline, scheduledEvents, dawScheduled, tState, tPos>>
      /\ SetMetronome => UNCHANGED channels
      /\ \A id \in MixIds \cap DOMAIN channels :
           /\ \A val \in DawSliders :
                SetChannelVolumeOn(id, val) =>
                  /\ channels'[id].volume = stripSliderToDb(val)
                  /\ channels'[id].muted = channels[id].muted
                  /\ channels'[id].solo = channels[id].solo
                  /\ \A c \in DOMAIN channels \ {id} : channels'[c] = channels[c]
           /\ ToggleMuteOn(id) =>
                /\ channels'[id].muted = ~channels[id].muted
                /\ channels'[id].solo = channels[id].solo
                /\ \A c \in DOMAIN channels :
                     /\ channels'[c].volume = channels[c].volume
                     /\ c # id => /\ channels'[c].muted = channels[c].muted
                                  /\ channels'[c].solo = channels[c].solo
           /\ ToggleSoloOn(id) =>
                /\ channels'[id].solo = ~channels[id].solo
                /\ channels'[id].muted = channels[id].muted
                /\ \A c \in DOMAIN channels :
                     /\ channels'[c].volume = channels[c].volume
                     /\ c # id => /\ channels'[c].muted = channels[c].muted
                                  /\ channels'[c].solo = channels[c].solo
    ]_vars

(* two channels with different gains and flags, the metronome enabled and  *)
(* triggers outstanding                                                    *)
C20_Witness ==
  /\ active
  /\ channels["kick"].volume # channels["backing"].volume
  /\ channels["kick"].muted /\ ~channels["backing"].muted
  /\ channels["backing"].solo
  /\ metro.enabled
  /\ timeline # {}


ClassRank(class) ==
  CASE class = "handles" -> 1
    [] class = "voices" -> 2
    [] class = "buses" -> 3
    [] class = "backing" -> 4

(* the releases of one engine in a disposal follow the order handles,      *)
(* voices, buses, backing source                                           *)
InOrder(log, engine) ==
  \A i, j \in DOMAIN log :
    (i < j /\ log[i].engine = engine /\ log[j].engine = engine)
      => ClassRank(log[i].class) <= ClassRank(log[j].class)

(* C21: a disposal of the player releases, per engine, the scheduled       *)
(* handles, then the voices, then the channel buses, then the backing      *)
(* source, and right after it no handle, voice, bus, metronome trigger or  *)
(* backing source of the engines remains.                                  *)
C21_DisposalOrder ==
  disposal # << >> =>
    /\ InOrder(disposal, "daw")
    /\ InOrder(disposal, "base")
    /\ loadStatus = None =>
         /\ timeline = {}
         /\ players = << >> /\ stemPlayers = << >>
         /\ channels = << >> /\ ~volumeNodes
         /\ metro.part = NoPart /\ ~metro.nodes
         /\ backing = NoBacking

(* C30: the playing flag of the player context is true exactly when the    *)
(* transport is started.                                                   *)
C30_PlayingFlagAgrees == isPlaying <=> (tState = "started")

(* indices of the events of a list that belong to a stem channel *)
KeptIdx(evs, id) == {i \in DOMAIN evs : evs[i].midi_note \in SeqToSet(STEM_MIDI_NOTES[id])}

(* the k-th smallest element of a set of numbers *)
Kth(S, k) == CHOOSE x \in S : Cardinality({y \in S : y < x}) = k - 1

(* C22: exportChannelMidi of an existing drum-stem channel returns one track on      *)
(* channel 9 with the given tempo and exactly one note per event of the    *)
(* channel, in list order, at the event's time, 50 ms long, with the       *)
(* event's velocity; for the backing channel or an unknown channel it      *)
(* fails and returns no file.                                              *)
C22_ChannelMidi ==
  midiOut.status # None =>
    IF midiOut.ch \in StemIds /\ midiOut.known
      THEN LET f == midiOut.file
               kept == KeptIdx(midiOut.events, midiOut.ch)
           IN /\ midiOut.status = "ok"
              /\ f.tracks = 1 /\ f.channel = 9 /\ f.tempo = midiOut.bpm
              /\ Len(f.notes) = Cardinality(kept)
              /\ \A k \in DOMAIN f.notes :
                   LET e == midiOut.events[Kth(kept, k)]
                   IN /\ f.notes[k].midi = e.midi_note
                      /\ f.notes[k].velocity = e.velocity
                      /\ f.notes[k].ticks * 60000 = e.quantized_time * 1000 * midiOut.bpm * PPQ
                      /\ f.notes[k].durationTicks * 60000 = 50 * midiOut.bpm * PPQ
      ELSE midiOut.status = "error"

(* a stem export that kept one event of a list and dropped another *)
C22_Witness ==
  /\ midiOut.status = "ok"
  /\ Len(midiOut.file.notes) = 1
  /\ Len(midiOut.events) = 2

U16(b, o) == b[o + 1] + 256 * b[o + 2]

U32(b, o) == U16(b, o) + 65536 * U16(b, o + 2)

S16(b, o) == IF U16(b, o) >= 32768 THEN U16(b, o) - 65536 ELSE U16(b, o)

Abs(x) == IF x < 0 THEN -x ELSE x

(* C23: the bytes of encodeWav for a buffer of F frames and C channels:    *)
(* 44 + F*C*2 bytes, the RIFF/fmt/data header fields, every sample clamped *)
(* to [-1, 1] and written once as a signed 16-bit little-endian value,     *)
(* frames in order with channels interleaved, the offset ending at the end *)
(* of the buffer.                                                          *)
C23_WavLayout ==
  wav.encoded =>
    LET b == wav.out.view
        C == Len(wav.in.channels)
        F == Len(wav.in.channels[1])
        rate == wav.in.sampleRate
        dataSize == F * C * 2
    IN /\ Len(b) = 44 + dataSize
       /\ SubSeq(b, 1, 4) = <<82, 73, 70, 70>>
       /\ U32(b, 4) = 36 + dataSize
       /\ SubSeq(b, 9, 16) = <<87, 65, 86, 69, 102, 109, 116, 32>>
       /\ U32(b, 16) = 16
       /\ U16(b, 20) = 1
       /\ U16(b, 22) = C
       /\ U32(b, 24) = rate
       /\ U32(b, 28) = rate * C * 2
       /\ U16(b, 32) = C * 2
       /\ U16(b, 34) = 16
       /\ SubSeq(b, 37, 40) = <<100, 97, 116, 97>>
       /\ U32(b, 40) = dataSize
       /\ \A i \in 1..F, ch \in 1..C :
            LET x == wav.in.channels[ch][i]
                c == IF x < -1000 THEN -1000 ELSE IF x > 1000 THEN 1000 ELSE x
                v == S16(b, 44 + ((i - 1) * C + (ch - 1)) * 2)
            IN /\ v \in -32768..32767
               /\ Abs(v * 1000 - c * 32767) < 1000
       /\ wav.out.written = [k \in 1..(F * C) |-> 44 + 2 * (k - 1)]
       /\ wav.out.offset = Len(b)

(* a stereo buffer of the longest length with a sample above 1 and a       *)
(* sample below -1                                                         *)
C23_Witness ==
  /\ wav.encoded
  /\ Len(wav.in.channels) = 2
  /\ Len(wav.in.channels[1]) = MaxFrames
  /\ wav.in.channels[1][1] > 1000
  /\ wav.in.channels[2][MaxFrames] < -1000

(***************************************************************************)
(* C24: on every 0-100 volume slider, position 0 is -Infinity dB (linear   *)
(* gain 0) and position 100 is 0 dB (linear gain 1): the MidiPlayer        *)
(* sliders through sliderToDb, and each channel strip fader, whose         *)
(* position is dbToSlider of the channel volume.                           *)
(***************************************************************************)
C24_SliderEndpoints ==
  /\ \A v \in Sliders :
       /\ v = 0 => sliderToDb(v) = NegInf /\ dbToLinear(sliderToDb(v)) = 0
       /\ v = 100 => sliderToDb(v) = 0 /\ dbToLinear(sliderToDb(v)) = 10000
  /\ \A c \in DOMAIN channels :
       /\ dbToSlider(channels[c].volume) = 0 =>
            channels[c].volume = NegInf /\ dbToLinear(channels[c].volume) = 0
       /\ dbToSlider(channels[c].volume) = 100 =>
            channels[c].volume = 0 /\ dbToLinear(channels[c].volume) = 10000

(***************************************************************************)
(* C25: exactly one routing path is unmuted: while multi-bus mode is       *)
(* active the integrated path is muted (the engine's flag and both of its  *)
(* buses), and while it is not active the integrated path is not muted (a  *)
(* bus reads muted only when its own volume is -Infinity).                 *)
(***************************************************************************)
C25_OnePathUnmuted ==
  (engineRef /\ volumeNodes) =>
    /\ active <=> muted.flag
    /\ active => muted.midi /\ muted.backing
    /\ ~active => /\ muted.midi <=> (midiDb = NegInf)
                  /\ muted.backing <=> (backingDb = NegInf)

(* the gate of a multi-bus channel is closed: it is muted, or another      *)
(* channel has solo and it has not                                         *)
GateClosed(c) ==
  \/ channels[c].muted
  \/ (\E d \in DOMAIN channels : channels[d].solo) /\ ~channels[c].solo

(* gain with which the integrated drum bus is heard *)
MidiBusGain == IF muted.midi THEN 0 ELSE dbToLinear(midiDb)

(***************************************************************************)
(* C28: a gain change never makes a silenced bus audible: a channel whose  *)
(* gate is closed is heard at gain 0, the integrated drum bus is heard at  *)
(* gain 0 while multi-bus mode is active, and once multi-bus mode is left  *)
(* the integrated drum bus has the gain of the slider value set last.      *)
(***************************************************************************)
C28_GainKeepsSilence ==
  /\ \A c \in DOMAIN channels : GateClosed(c) => ChannelGain(c) = 0
  /\ (engineRef /\ volumeNodes /\ active) => MidiBusGain = 0
  /\ (engineRef /\ volumeNodes /\ ~active /\ midiVol # InitialSlider) =>
       MidiBusGain = dbToLinear(sliderToDb(midiVol))

(***************************************************************************)
(* C26: once the load of an initialize abandoned by an unmount has         *)
(* settled, no handle of that engine is registered on the transport, and   *)
(* no tick invokes a callback of the abandoned engine.                     *)
(***************************************************************************)
C26_AbandonedLeavesNothing ==
  (stray.origin = "unmount" /\ stray.pc # "loading") =>
    /\ OwnedBy("stray") = {}
    /\ \A i \in DOMAIN fired : fired[i].outcome # "stray"

(***************************************************************************)
(* C27: initialize calls issued before the first one completes leave one   *)
(* engine: once they have settled, every handle on the transport belongs   *)
(* to the engine the provider references, none to a second, unreferenced   *)
(* engine.                                                                 *)
(***************************************************************************)
C27_OneEnginePerPlayer ==
  (stray.origin = "second" /\ stray.pc # "loading") =>
    /\ stray.handles = << >>
    /\ \A h \in timeline : h.owner \in {"base", "daw"}

(***************************************************************************)
(* C29: the handles an engine registered and has not cancelled itself are  *)
(* on the transport, whatever another engine disposed or deactivated: the  *)
(* handles of an unreferenced engine, and the handles of the integrated    *)
(* engine across activate and deactivate of the multi-bus engine.          *)
(***************************************************************************)
C29_ExclusiveHandles ==
  /\ stray.pc = "scheduled" =>
       \A i \in DOMAIN stray.handles : \E h \in timeline : h.id = stray.handles[i]
  /\ (engineRef /\ initPc = "done") =>
       \A i \in DOMAIN scheduledEvents :
         \E h \in timeline : h.id = scheduledEvents[i] /\ h.owner = "base"

====
